---- MODULE Spec2Model ----
(***************************************************************************)
(* A model of the 6502 core of ts64 (class CPU, src/unnamed/part_000 lines *)
(* 1713-3242) and of the harness that drives it in its test suites.        *)
(*                                                                         *)
(* The core is a TypeScript class: its registers are plain JavaScript      *)
(* numbers and its memory is a Uint8Array of 0x10000 bytes.  The model     *)
(* keeps the JavaScript meaning of every expression of the source:         *)
(*   - an element read outside 0..0xFFFF yields `undefined`;               *)
(*   - arithmetic on `undefined` yields NaN, the bitwise operators turn    *)
(*     both into 0 (ToInt32);                                              *)
(*   - an element store converts the value modulo 256 and is dropped when  *)
(*     the index is outside the array;                                     *)
(*   - `memory[undefined]` is the ordinary property "undefined" of the     *)
(*     array object.                                                       *)
(***************************************************************************)
EXTENDS Integers, Sequences, FiniteSets, TLC

VARIABLES
    A, X, Y, SP, PC, SR,  \* the registers of the CPU object
    memory,               \* its memory
    thrown,               \* what the last call of the driver threw, if anything
    phase,                \* where the driver is: "new", "loaded", "ready", "run"
    budget,               \* how many more calls the driver makes at most
    ram,                  \* the ram of the Bus object
    trace                 \* what the driver did since it loaded the memory, each
                          \* call with the fields it started from

vars == <<A, X, Y, SP, PC, SR, memory, thrown, phase, budget, ram, trace>>

(***************************************************************************)
(* JavaScript values.  Numbers are integers here (every number the core    *)
(* computes is an integer far below 2^31); `undefined` and NaN are two     *)
(* values outside the range any computation of the core produces.          *)
(***************************************************************************)
Undefined == -1000001
NaN == -1000002

IsNumber(v) == v # Undefined /\ v # NaN

\* ToInt32 of the bitwise operators: undefined and NaN become 0.
ToInt32(v) == IF IsNumber(v) THEN v ELSE 0

\* a + b and a - b: undefined converts to NaN, NaN is absorbing.
Plus(a, b) == IF IsNumber(a) /\ IsNumber(b) THEN a + b ELSE NaN
Minus(a, b) == IF IsNumber(a) /\ IsNumber(b) THEN a - b ELSE NaN

\* a < b, a > b, a >= b: false as soon as one side is NaN.
Less(a, b) == IsNumber(a) /\ IsNumber(b) /\ a < b
Greater(a, b) == IsNumber(a) /\ IsNumber(b) /\ a > b
GreaterEq(a, b) == IsNumber(a) /\ IsNumber(b) /\ a >= b

\* `if (v)`: undefined, NaN and 0 are falsy.
Truthy(v) == IsNumber(v) /\ v # 0

RECURSIVE BitsAnd(_, _)
BitsAnd(a, b) ==
    IF a = 0 \/ b = 0 THEN 0
    ELSE (a % 2) * (b % 2) + 2 * BitsAnd(a \div 2, b \div 2)

RECURSIVE BitsOr(_, _)
BitsOr(a, b) ==
    IF a = 0 THEN b
    ELSE IF b = 0 THEN a
    ELSE (IF a % 2 = 1 \/ b % 2 = 1 THEN 1 ELSE 0) + 2 * BitsOr(a \div 2, b \div 2)

RECURSIVE BitsXor(_, _)
BitsXor(a, b) ==
    IF a = 0 THEN b
    ELSE IF b = 0 THEN a
    ELSE ((a + b) % 2) + 2 * BitsXor(a \div 2, b \div 2)

\* ~a on a 32-bit two's complement integer.
Not(a) == 0 - ToInt32(a) - 1

\* a & b.  A negative operand is the complement of a natural number, a
\* non-negative one is below 2^17 wherever the core uses the operator.
And(a, b) ==
    LET x == ToInt32(a)
        y == ToInt32(b)
    IN  IF x >= 0 /\ y >= 0 THEN BitsAnd(x, y)
        ELSE IF x >= 0 THEN x - BitsAnd(x, Not(y))
        ELSE IF y >= 0 THEN y - BitsAnd(y, Not(x))
        ELSE Not(BitsOr(Not(x), Not(y)))

\* a | b and a ^ b, on the non-negative operands the core gives them.
Or(a, b) == BitsOr(ToInt32(a), ToInt32(b))
Xor(a, b) == BitsXor(ToInt32(a), ToInt32(b))

\* a << n and a >> n.
Shl(a, n) == ToInt32(a) * (2 ^ n)
Shr(a, n) == ToInt32(a) \div (2 ^ n)

(***************************************************************************)
(* The memory: new Uint8Array(0x10000).  The model stores it sparsely: the *)
(* function `memory` maps the addresses holding a non-zero byte to that    *)
(* byte, every other address of 0..0xFFFF holds 0.  The key Undefined is   *)
(* the ordinary property memory["undefined"], which a store through an     *)
(* undefined address creates.                                              *)
(***************************************************************************)
Addresses == 0 .. 65535

\* this.memory[addr]
Element(mem, addr) ==
    IF addr \in DOMAIN mem THEN mem[addr]
    ELSE IF addr \in Addresses THEN 0
    ELSE Undefined

\* this.memory[addr] = value
StoreElement(mem, addr, value) ==
    LET byte == ToInt32(value) % 256
    IN  IF addr = Undefined
        THEN [a \in DOMAIN mem \cup {addr} |-> IF a = addr THEN value ELSE mem[a]]
        ELSE IF addr \notin Addresses THEN mem
        ELSE IF byte = 0 THEN [a \in DOMAIN mem \ {addr} |-> mem[a]]
        ELSE [a \in DOMAIN mem \cup {addr} |-> IF a = addr THEN byte ELSE mem[a]]

\* What a call leaves to its caller besides the fields: nothing, or the
\* exception it threw (its constructor and the text the core put in it, the
\* hexadecimal digits of the opcode).
NoError == [name |-> "none", message |-> <<>>]

\* The fields of a CPU object as a record; `thrown` is the exception
\* propagating out of the call in progress.
CPUFields(a, x, y, sp, pc, sr, mem) ==
    [A |-> a, X |-> x, Y |-> y, SP |-> sp, PC |-> pc, SR |-> sr, memory |-> mem,
     thrown |-> NoError]

(***************************************************************************)
(* The methods of class CPU.  Each takes the object's fields as a record c *)
(* and yields the fields after the call.                                   *)
(***************************************************************************)
read(c, addr) == Element(c.memory, addr)

write(c, addr, value) == [c EXCEPT !.memory = StoreElement(c.memory, addr, value)]

readWord(c, addr) ==
    LET lo == read(c, addr)
        hi == read(c, Plus(addr, 1))
    IN  Or(Shl(hi, 8), lo)

setZeroAndNegativeFlags(c, value) ==
    LET z == IF value = 0 THEN Or(c.SR, 2) ELSE And(c.SR, Not(2))
    IN  [c EXCEPT !.SR = IF Truthy(And(value, 128)) THEN Or(z, 128) ELSE And(z, Not(128))]

setFlagC(c, value) ==
    [c EXCEPT !.SR = IF Truthy(value) THEN Or(c.SR, 1) ELSE And(c.SR, Not(1))]

\* push that lets SP leave the byte range: no `& 0xff`.
pushUnmasked(c, value) ==
    [write(c, Plus(256, c.SP), value) EXCEPT !.SP = Minus(c.SP, 1)]

push(c, value) ==
    [write(c, Plus(256, c.SP), value) EXCEPT !.SP = And(Minus(c.SP, 1), 255)]

\* pull() changes SP and returns the byte read: pulled(c) is the value
\* returned, pull(c) the fields after the call.
\* pull that clears the byte it returns, after the caller has read it.
pullClearing(c) ==
    [write(c, Plus(256, And(Plus(c.SP, 1), 255)), 0) EXCEPT !.SP = And(Plus(c.SP, 1), 255)]

pull(c) == [c EXCEPT !.SP = And(Plus(c.SP, 1), 255)]

pulled(c) == read(c, Plus(256, pull(c).SP))

\* reset that leaves the status register as it is.
resetKeepingSR(c) ==
    [c EXCEPT !.A = 0, !.X = 0, !.Y = 0, !.SP = 253, !.PC = readWord(c, 65532)]

reset(c) ==
    [c EXCEPT !.A = 0, !.X = 0, !.Y = 0, !.SP = 253, !.SR = 36,
              !.PC = readWord(c, 65532)]

\* adc with the carry test off by one: `sum >= 0xff`.
adcCarryFrom255(c, value) ==
    LET carry == And(c.SR, 1)
        sum == Plus(Plus(c.A, value), carry)
        result == And(sum, 255)
        sr1 == IF GreaterEq(sum, 255) THEN Or(c.SR, 1) ELSE And(c.SR, Not(1))
        sr2 == IF Truthy(And(Xor(c.A, result), 128)) /\ ~Truthy(And(Xor(c.A, value), 128))
               THEN Or(sr1, 64)
               ELSE And(sr1, Not(64))
    IN  setZeroAndNegativeFlags([c EXCEPT !.SR = sr2, !.A = result], result)

\* adc that adjusts the sum as decimal digits when the Decimal flag is set.
adcDecimalAdjusted(c, value) ==
    LET carry == And(c.SR, 1)
        binary == Plus(Plus(c.A, value), carry)
        sum == IF Truthy(And(c.SR, 8))
                  /\ Greater(Plus(Plus(And(c.A, 15), And(value, 15)), carry), 9)
               THEN Plus(binary, 6)
               ELSE binary
        result == And(sum, 255)
        sr1 == IF Greater(sum, 255) THEN Or(c.SR, 1) ELSE And(c.SR, Not(1))
        sr2 == IF Truthy(And(Xor(c.A, result), 128)) /\ ~Truthy(And(Xor(c.A, value), 128))
               THEN Or(sr1, 64)
               ELSE And(sr1, Not(64))
    IN  setZeroAndNegativeFlags([c EXCEPT !.SR = sr2, !.A = result], result)

adc(c, value) ==
    LET carry == And(c.SR, 1)
        sum == Plus(Plus(c.A, value), carry)
        result == And(sum, 255)
        sr1 == IF Greater(sum, 255) THEN Or(c.SR, 1) ELSE And(c.SR, Not(1))
        sr2 == IF Truthy(And(Xor(c.A, result), 128)) /\ ~Truthy(And(Xor(c.A, value), 128))
               THEN Or(sr1, 64)
               ELSE And(sr1, Not(64))
    IN  setZeroAndNegativeFlags([c EXCEPT !.SR = sr2, !.A = result], result)

and(c, value) ==
    LET result == And(c.A, value)
    IN  setZeroAndNegativeFlags([c EXCEPT !.A = result], result)

\* asl(value) returns aslResult(value) and leaves the fields asl(c, value).
aslResult(value) == And(Shl(value, 1), 255)

asl(c, value) ==
    LET carry == IF Truthy(And(value, 128)) THEN 1 ELSE 0
        sr1 == IF Truthy(carry) THEN Or(c.SR, 1) ELSE And(c.SR, Not(1))
    IN  setZeroAndNegativeFlags([c EXCEPT !.SR = sr1], aslResult(value))

cmp(c, value) ==
    LET result == And(Minus(c.A, value), 255)
        sr1 == IF GreaterEq(c.A, value) THEN Or(c.SR, 1) ELSE And(c.SR, Not(1))
        sr2 == IF result = 0 THEN Or(sr1, 2) ELSE And(sr1, Not(2))
        sr3 == IF Truthy(And(result, 128)) THEN Or(sr2, 128) ELSE And(sr2, Not(128))
    IN  [c EXCEPT !.SR = sr3]

\* cpx that sets Carry only when X is greater: `this.X > value ? 0x01 : 0`.
cpxCarryWhenGreater(c, value) ==
    LET result == And(Minus(c.X, value), 255)
    IN  [c EXCEPT !.SR =
            Or(Or(Or(And(c.SR, Not(131)),
                     IF Greater(c.X, value) THEN 1 ELSE 0),
                  IF result = 0 THEN 2 ELSE 0),
               And(result, 128))]

cpx(c, value) ==
    LET result == And(Minus(c.X, value), 255)
    IN  [c EXCEPT !.SR =
            Or(Or(Or(And(c.SR, Not(131)),
                     IF GreaterEq(c.X, value) THEN 1 ELSE 0),
                  IF result = 0 THEN 2 ELSE 0),
               And(result, 128))]

cpy(c, value) ==
    LET result == And(Minus(c.Y, value), 255)
    IN  [c EXCEPT !.SR =
            Or(Or(Or(And(c.SR, Not(131)),
                     IF GreaterEq(c.Y, value) THEN 1 ELSE 0),
                  IF result = 0 THEN 2 ELSE 0),
               And(result, 128))]

eor(c, value) ==
    LET result == Xor(c.A, value)
    IN  setZeroAndNegativeFlags([c EXCEPT !.A = result], result)

\* rotateLeft(value) returns rotateLeftResult(c, value) and leaves the fields
\* rotateLeft(c, value); likewise rotateRight.
\* rotateLeft that shifts without the previous carry: `(value << 1) & 0xff`.
rotateLeftResultWithoutCarry(c, value) == And(Shl(value, 1), 255)

rotateLeftResult(c, value) == And(Or(Shl(value, 1), And(c.SR, 1)), 255)

rotateLeft(c, value) ==
    LET sr1 == Or(And(c.SR, Not(1)), IF Truthy(And(value, 128)) THEN 1 ELSE 0)
    IN  setZeroAndNegativeFlags([c EXCEPT !.SR = sr1], rotateLeftResult(c, value))

\* rotateRight that shifts without the previous carry: `(value >> 1) & 0xff`.
rotateRightResultWithoutCarry(c, value) == And(Shr(value, 1), 255)

rotateRightResult(c, value) == And(Or(Shr(value, 1), Shl(And(c.SR, 1), 7)), 255)

rotateRight(c, value) ==
    LET sr1 == Or(And(c.SR, Not(1)), And(value, 1))
    IN  setZeroAndNegativeFlags([c EXCEPT !.SR = sr1], rotateRightResult(c, value))

\* sbc that ignores the carry: `this.A + inverted + 1`.
sbcIgnoringCarry(c, value) ==
    LET inverted == Xor(value, 255)
        sum == Plus(Plus(c.A, inverted), 1)
        result == And(sum, 255)
        sr1 == IF Greater(sum, 255) THEN Or(c.SR, 1) ELSE And(c.SR, Not(1))
        overflow == And(And(Not(Xor(c.A, inverted)), Xor(c.A, result)), 128)
        sr2 == IF Truthy(overflow) THEN Or(sr1, 64) ELSE And(sr1, Not(64))
    IN  setZeroAndNegativeFlags([c EXCEPT !.SR = sr2, !.A = result], result)

\* sbc that takes the overflow from the operand as given: `~(this.A ^ value)`.
sbcOverflowOfOperand(c, value) ==
    LET inverted == Xor(value, 255)
        sum == Plus(Plus(c.A, inverted), And(c.SR, 1))
        result == And(sum, 255)
        sr1 == IF Greater(sum, 255) THEN Or(c.SR, 1) ELSE And(c.SR, Not(1))
        overflow == And(And(Not(Xor(c.A, value)), Xor(c.A, result)), 128)
        sr2 == IF Truthy(overflow) THEN Or(sr1, 64) ELSE And(sr1, Not(64))
    IN  setZeroAndNegativeFlags([c EXCEPT !.SR = sr2, !.A = result], result)

sbc(c, value) ==
    LET inverted == Xor(value, 255)
        sum == Plus(Plus(c.A, inverted), And(c.SR, 1))
        result == And(sum, 255)
        sr1 == IF Greater(sum, 255) THEN Or(c.SR, 1) ELSE And(c.SR, Not(1))
        overflow == And(And(Not(Xor(c.A, inverted)), Xor(c.A, result)), 128)
        sr2 == IF Truthy(overflow) THEN Or(sr1, 64) ELSE And(sr1, Not(64))
    IN  setZeroAndNegativeFlags([c EXCEPT !.SR = sr2, !.A = result], result)

(***************************************************************************)
(* step(): the operand bytes and the addressing modes.  In the operators   *)
(* below c holds the fields once the opcode has been fetched, so c.PC is   *)
(* the address of the first operand byte.  Every case of the switch reads  *)
(* its operand bytes with this.read(this.PC++), readWordAtPC() or          *)
(* readWord(this.PC) before it changes anything else.                      *)
(***************************************************************************)
byte1(c) == read(c, c.PC)

byte2(c) == read(c, c.PC + 1)

\* The fields after n operand bytes have been consumed (PC++ n times).
skip(c, n) == [c EXCEPT !.PC = @ + n]

\* const addr = this.read(this.PC++)
zeroPage(c) == byte1(c)

\* this.read(this.PC++) + this.X, carried into page 1
zeroPageXIntoPageOne(c) == Plus(byte1(c), c.X)

\* (this.read(this.PC++) + this.X) & 0xff
zeroPageX(c) == And(Plus(byte1(c), c.X), 255)

\* (this.read(this.PC++) + this.Y) & 0xff
zeroPageY(c) == And(Plus(byte1(c), c.Y), 255)

\* The operand word read high byte first: (lo << 8) | hi.
absoluteBigEndian(c) == Or(Shl(byte1(c), 8), byte2(c))

\* (hi << 8) | lo
absolute(c) == Or(Shl(byte2(c), 8), byte1(c))

\* ((hi << 8) | lo) + this.X, before any masking
absoluteX(c) == Plus(absolute(c), c.X)

\* ((hi << 8) | lo) + this.Y, before any masking
absoluteY(c) == Plus(absolute(c), c.Y)

\* the word at (operand + X) & 0xff, its high byte taken from the next
\* address even in page 1
indirectXIntoPageOne(c) ==
    LET zpAddr == zeroPageX(c)
        lo == read(c, zpAddr)
        hi == read(c, Plus(zpAddr, 1))
    IN  Or(Shl(hi, 8), lo)

\* the word at the zero-page address (operand + X) & 0xff
indirectX(c) ==
    LET zpAddr == zeroPageX(c)
        lo == read(c, zpAddr)
        hi == read(c, And(Plus(zpAddr, 1), 255))
    IN  Or(Shl(hi, 8), lo)

\* the word at the zero-page address operand, plus Y, before any masking
indirectY(c) ==
    LET zpAddr == byte1(c)
        lo == read(c, zpAddr)
        hi == read(c, And(Plus(zpAddr, 1), 255))
    IN  Plus(Or(Shl(hi, 8), lo), c.Y)

\* addr & 0xffff
Wrap16(addr) == And(addr, 65535)

(***************************************************************************)
(* step(): the cases of the switch, one operator an instruction.           *)
(***************************************************************************)
ADC(c, opcode) ==
    CASE opcode = \h69 -> adc(skip(c, 1), byte1(c))
      [] opcode = \h65 -> adc(skip(c, 1), read(c, zeroPage(c)))
      [] opcode = \h75 -> adc(skip(c, 1), read(c, zeroPageX(c)))
      [] opcode = \h6D -> adc(skip(c, 2), read(c, absolute(c)))
      [] opcode = \h7D -> adc(skip(c, 2), read(c, absoluteX(c)))
      [] opcode = \h79 -> adc(skip(c, 2), read(c, absoluteY(c)))
      [] opcode = \h61 -> adc(skip(c, 1), read(c, indirectX(c)))
      [] opcode = \h71 -> adc(skip(c, 1), read(c, indirectY(c)))

AND(c, opcode) ==
    CASE opcode = \h29 -> and(skip(c, 1), byte1(c))
      [] opcode = \h25 -> and(skip(c, 1), read(c, zeroPage(c)))
      [] opcode = \h35 -> and(skip(c, 1), read(c, zeroPageX(c)))
      [] opcode = \h2D -> and(skip(c, 2), read(c, absolute(c)))
      [] opcode = \h3D -> and(skip(c, 2), read(c, absoluteX(c)))
      [] opcode = \h39 -> and(skip(c, 2), read(c, absoluteY(c)))
      [] opcode = \h21 -> and(skip(c, 1), read(c, indirectX(c)))
      [] opcode = \h31 -> and(skip(c, 1), read(c, indirectY(c)))

\* const val = this.read(addr); const result = this.asl(val); this.write(addr, result)
aslMemory(c, addr) == write(asl(c, read(c, addr)), addr, aslResult(read(c, addr)))

ASL(c, opcode) ==
    CASE opcode = \h0A -> [asl(c, c.A) EXCEPT !.A = aslResult(c.A)]
      [] opcode = \h06 -> aslMemory(skip(c, 1), zeroPage(c))
      [] opcode = \h16 -> aslMemory(skip(c, 1), zeroPageX(c))
      [] opcode = \h0E -> aslMemory(skip(c, 2), absolute(c))
      [] opcode = \h1E -> aslMemory(skip(c, 2), absoluteX(c))

\* The eight branches: read the offset, then move PC when the flag under
\* `mask` is set (wanted = TRUE) or clear (wanted = FALSE).
branch(c, mask, wanted) ==
    LET offset == byte1(c)
        c1 == skip(c, 1)
        signedOffset == IF Less(offset, 128) THEN offset ELSE Minus(offset, 256)
    IN  IF (And(c.SR, mask) # 0) = wanted
        THEN [c1 EXCEPT !.PC = And(Plus(c1.PC, signedOffset), 65535)]
        ELSE c1

BCC(c) == branch(c, 1, FALSE)
BCS(c) == branch(c, 1, TRUE)
BEQ(c) == branch(c, 2, TRUE)
BMI(c) == branch(c, 128, TRUE)
\* BNE that tests the Negative flag: `this.SR & 0x80`.
BNEOnNegative(c) == branch(c, 128, FALSE)

BNE(c) == branch(c, 2, FALSE)
BPL(c) == branch(c, 128, FALSE)
BVC(c) == branch(c, 64, FALSE)
BVS(c) == branch(c, 64, TRUE)

\* bit that copies bits 6 and 7 from the masked result: `result & 0x40`.
bitOfResult(c, value) ==
    LET result == And(c.A, value)
    IN  [c EXCEPT !.SR =
            Or(Or(Or(And(c.SR, Not(Or(Or(2, 64), 128))),
                     IF result = 0 THEN 2 ELSE 0),
                  And(result, 64)),
               And(result, 128))]

bit(c, value) ==
    LET result == And(c.A, value)
    IN  [c EXCEPT !.SR =
            Or(Or(Or(And(c.SR, Not(Or(Or(2, 64), 128))),
                     IF result = 0 THEN 2 ELSE 0),
                  And(value, 64)),
               And(value, 128))]

BIT(c, opcode) ==
    CASE opcode = \h24 -> bit(skip(c, 1), read(c, zeroPage(c)))
      [] opcode = \h2C -> bit(skip(c, 2), read(c, absolute(c)))

\* BRK that pushes the return address and the flag byte before it jumps.
BRKPushing(c) ==
    LET c1 == push(push(c, And(Shr(Plus(c.PC, 1), 8), 255)), And(Plus(c.PC, 1), 255))
        c2 == push(c1, Or(c1.SR, 16))
        c3 == [c2 EXCEPT !.SR = Or(Or(c2.SR, 16), 4)]
    IN  [c3 EXCEPT !.PC = readWord(c3, 65534)]

BRK(c) ==
    LET c1 == [c EXCEPT !.SR = Or(Or(c.SR, 16), 4)]
    IN  [c1 EXCEPT !.PC = readWord(c1, 65534)]

\* CLC, CLD, CLI, CLV: this.SR &= ~mask; this.PC++
clearFlag(c, mask) == skip([c EXCEPT !.SR = And(c.SR, Not(mask))], 1)

CLC(c) == clearFlag(c, 1)
CLD(c) == clearFlag(c, 8)
CLI(c) == clearFlag(c, 4)
CLV(c) == clearFlag(c, 64)

CMP(c, opcode) ==
    CASE opcode = \hC9 -> cmp(skip(c, 1), byte1(c))
      [] opcode = \hC5 -> cmp(skip(c, 1), read(c, zeroPage(c)))
      [] opcode = \hD5 -> cmp(skip(c, 1), read(c, zeroPageX(c)))
      [] opcode = \hCD -> cmp(skip(c, 2), read(c, absolute(c)))
      [] opcode = \hDD -> cmp(skip(c, 2), read(c, Wrap16(absoluteX(c))))
      [] opcode = \hD9 -> cmp(skip(c, 2), read(c, Wrap16(absoluteY(c))))
      [] opcode = \hC1 -> cmp(skip(c, 1), read(c, indirectX(c)))
      [] opcode = \hD1 -> cmp(skip(c, 1), read(c, Wrap16(indirectY(c))))

CPX(c, opcode) ==
    CASE opcode = \hE0 -> cpx(skip(c, 1), byte1(c))
      [] opcode = \hE4 -> cpx(skip(c, 1), read(c, zeroPage(c)))
      [] opcode = \hEC -> cpx(skip(c, 2), read(c, absolute(c)))

CPY(c, opcode) ==
    CASE opcode = \hC0 -> cpy(skip(c, 1), byte1(c))
      [] opcode = \hC4 -> cpy(skip(c, 1), read(c, zeroPage(c)))
      [] opcode = \hCC -> cpy(skip(c, 2), read(c, absolute(c)))

\* const value = (this.read(addr) - 1) & 0xff; this.write(addr, value);
\* this.setZeroAndNegativeFlags(value)
decMemory(c, addr) ==
    LET value == And(Minus(read(c, addr), 1), 255)
    IN  setZeroAndNegativeFlags(write(c, addr, value), value)

DEC(c, opcode) ==
    CASE opcode = \hC6 -> decMemory(skip(c, 1), zeroPage(c))
      [] opcode = \hD6 -> decMemory(skip(c, 1), zeroPageX(c))
      [] opcode = \hCE -> decMemory(skip(c, 2), absolute(c))
      [] opcode = \hDE -> decMemory(skip(c, 2), Wrap16(absoluteX(c)))

\* DEX that leaves the flags alone.
DEXKeepingFlags(c) == [c EXCEPT !.X = And(Minus(c.X, 1), 255)]

DEX(c) ==
    LET value == And(Minus(c.X, 1), 255)
    IN  setZeroAndNegativeFlags([c EXCEPT !.X = value], value)

DEY(c) ==
    LET value == And(Minus(c.Y, 1), 255)
    IN  setZeroAndNegativeFlags([c EXCEPT !.Y = value], value)

EOR(c, opcode) ==
    CASE opcode = \h49 -> eor(skip(c, 1), byte1(c))
      [] opcode = \h45 -> eor(skip(c, 1), read(c, zeroPage(c)))
      [] opcode = \h55 -> eor(skip(c, 1), read(c, zeroPageX(c)))
      [] opcode = \h4D -> eor(skip(c, 2), read(c, absolute(c)))
      [] opcode = \h5D -> eor(skip(c, 2), read(c, Wrap16(absoluteX(c))))
      [] opcode = \h59 -> eor(skip(c, 2), read(c, Wrap16(absoluteY(c))))
      [] opcode = \h41 -> eor(skip(c, 1), read(c, indirectX(c)))
      [] opcode = \h51 -> eor(skip(c, 1), read(c, Wrap16(indirectY(c))))

\* const value = (this.read(addr) + 1) & 0xff; this.write(addr, value);
\* this.setZeroAndNegativeFlags(value)
incMemory(c, addr) ==
    LET value == And(Plus(read(c, addr), 1), 255)
    IN  setZeroAndNegativeFlags(write(c, addr, value), value)

INC(c, opcode) ==
    CASE opcode = \hE6 -> incMemory(skip(c, 1), zeroPage(c))
      [] opcode = \hF6 -> incMemory(skip(c, 1), zeroPageX(c))
      [] opcode = \hEE -> incMemory(skip(c, 2), absolute(c))
      [] opcode = \hFE -> incMemory(skip(c, 2), Wrap16(absoluteX(c)))

INX(c) ==
    LET value == And(Plus(c.X, 1), 255)
    IN  setZeroAndNegativeFlags([c EXCEPT !.X = value], value)

INY(c) ==
    LET value == And(Plus(c.Y, 1), 255)
    IN  setZeroAndNegativeFlags([c EXCEPT !.Y = value], value)

\* JMP that reads the high byte of an indirect target at ptr + 1, across
\* the page boundary.
JMPAcrossPage(c, opcode) ==
    CASE opcode = \h4C -> [c EXCEPT !.PC = absolute(c)]
      [] opcode = \h6C -> [c EXCEPT !.PC = readWord(c, absolute(c))]

JMP(c, opcode) ==
    CASE opcode = \h4C -> [c EXCEPT !.PC = absolute(c)]
      [] opcode = \h6C ->
           LET ptr == absolute(c)
               lo == read(c, ptr)
               hi == read(c, Or(And(ptr, 65280), And(Plus(ptr, 1), 255)))
           IN  [c EXCEPT !.PC = Or(Shl(hi, 8), lo)]

\* JSR that pushes the low byte of the return address first.
JSRPushingLowFirst(c) ==
    LET addr == absolute(c)
        c2 == skip(c, 2)
        returnAddr == Minus(c2.PC, 1)
        c3 == push(c2, And(returnAddr, 255))
        c4 == push(c3, And(Shr(returnAddr, 8), 255))
    IN  [c4 EXCEPT !.PC = addr]

JSR(c) ==
    LET addr == absolute(c)
        c2 == skip(c, 2)
        returnAddr == Minus(c2.PC, 1)
        c3 == push(c2, And(Shr(returnAddr, 8), 255))
        c4 == push(c3, And(returnAddr, 255))
    IN  [c4 EXCEPT !.PC = addr]

\* this.A = <value>; this.setZeroAndNegativeFlags(this.A)
lda(c, value) == setZeroAndNegativeFlags([c EXCEPT !.A = value], value)

LDA(c, opcode) ==
    CASE opcode = \hA9 -> lda(skip(c, 1), byte1(c))
      [] opcode = \hAD -> lda(skip(c, 2), read(c, absolute(c)))
      [] opcode = \hA5 -> lda(skip(c, 1), read(c, zeroPage(c)))
      [] opcode = \hB5 -> lda(skip(c, 1), read(c, zeroPageX(c)))
      [] opcode = \hBD -> lda(skip(c, 2), read(c, Wrap16(absoluteX(c))))
      [] opcode = \hB9 -> lda(skip(c, 2), read(c, Wrap16(absoluteY(c))))
      [] opcode = \hA1 -> lda(skip(c, 1), read(c, indirectX(c)))
      [] opcode = \hB1 -> lda(skip(c, 1), read(c, Wrap16(indirectY(c))))

\* this.X = <value>; this.setZeroAndNegativeFlags(this.X)
\* ldx that leaves the flags alone.
ldxKeepingFlags(c, value) == [c EXCEPT !.X = value]

ldx(c, value) == setZeroAndNegativeFlags([c EXCEPT !.X = value], value)

LDX(c, opcode) ==
    CASE opcode = \hA2 -> ldx(skip(c, 1), byte1(c))
      [] opcode = \hA6 -> ldx(skip(c, 1), read(c, zeroPage(c)))
      [] opcode = \hB6 -> ldx(skip(c, 1), read(c, zeroPageY(c)))
      [] opcode = \hAE -> ldx(skip(c, 2), read(c, absolute(c)))
      [] opcode = \hBE -> ldx(skip(c, 2), read(c, Wrap16(absoluteY(c))))

\* this.Y = <value>; this.setZeroAndNegativeFlags(this.Y)
ldy(c, value) == setZeroAndNegativeFlags([c EXCEPT !.Y = value], value)

LDY(c, opcode) ==
    CASE opcode = \hA0 -> ldy(skip(c, 1), byte1(c))
      [] opcode = \hA4 -> ldy(skip(c, 1), read(c, zeroPage(c)))
      [] opcode = \hB4 -> ldy(skip(c, 1), read(c, zeroPageX(c)))
      [] opcode = \hAC -> ldy(skip(c, 2), read(c, absolute(c)))
      [] opcode = \hBC -> ldy(skip(c, 2), read(c, Wrap16(absoluteX(c))))

\* const value = this.read(addr); const carry = value & 0x01;
\* const result = value >> 1; this.setFlag("C", carry);
\* this.write(addr, result); this.setZeroAndNegativeFlags(result)
lsrMemory(c, addr) ==
    LET value == read(c, addr)
        result == Shr(value, 1)
    IN  setZeroAndNegativeFlags(write(setFlagC(c, And(value, 1)), addr, result), result)

LSR(c, opcode) ==
    CASE opcode = \h4A ->
           LET result == Shr(c.A, 1)
           IN  setZeroAndNegativeFlags(
                   [setFlagC(c, And(c.A, 1)) EXCEPT !.A = result], result)
      [] opcode = \h46 -> lsrMemory(skip(c, 1), zeroPage(c))
      [] opcode = \h56 -> lsrMemory(skip(c, 1), zeroPageX(c))
      [] opcode = \h4E -> lsrMemory(skip(c, 2), absolute(c))
      [] opcode = \h5E -> lsrMemory(skip(c, 2), Wrap16(absoluteX(c)))

NOP(c) == c

\* this.A |= <value>; this.setZeroAndNegativeFlags(this.A)
ora(c, value) ==
    LET result == Or(c.A, value)
    IN  setZeroAndNegativeFlags([c EXCEPT !.A = result], result)

ORA(c, opcode) ==
    CASE opcode = \h09 -> ora(skip(c, 1), byte1(c))
      [] opcode = \h05 -> ora(skip(c, 1), read(c, zeroPage(c)))
      [] opcode = \h15 -> ora(skip(c, 1), read(c, zeroPageX(c)))
      [] opcode = \h0D -> ora(skip(c, 2), read(c, absolute(c)))
      [] opcode = \h1D -> ora(skip(c, 2), read(c, Wrap16(absoluteX(c))))
      [] opcode = \h19 -> ora(skip(c, 2), read(c, Wrap16(absoluteY(c))))
      [] opcode = \h01 -> ora(skip(c, 1), read(c, indirectX(c)))
      [] opcode = \h11 -> ora(skip(c, 1), read(c, Wrap16(indirectY(c))))

PHA(c) == push(c, c.A)

\* PHP that pushes the flag byte with bit 5 forced alone: `this.SR | 0x20`.
PHPWithoutBreak(c) == push(c, Or(c.SR, 32))

PHP(c) == push(c, Or(c.SR, 48))

\* PLA that leaves the flags alone.
PLAKeepingFlags(c) == [pull(c) EXCEPT !.A = pulled(c)]

PLA(c) ==
    LET value == pulled(c)
    IN  setZeroAndNegativeFlags([pull(c) EXCEPT !.A = value], value)

\* PLP that keeps the pulled bit 4.
PLPKeepingBreak(c) == [pull(c) EXCEPT !.SR = Or(pulled(c), 32)]

\* PLP that leaves bit 5 as pulled.
PLPKeepingBit5(c) == [pull(c) EXCEPT !.SR = And(pulled(c), 239)]

PLP(c) == [pull(c) EXCEPT !.SR = Or(And(pulled(c), 239), 32)]

\* const value = this.read(addr); this.write(addr, this.rotateLeft(value))
rolMemory(c, addr) ==
    write(rotateLeft(c, read(c, addr)), addr, rotateLeftResult(c, read(c, addr)))

ROL(c, opcode) ==
    CASE opcode = \h2A -> [rotateLeft(c, c.A) EXCEPT !.A = rotateLeftResult(c, c.A)]
      [] opcode = \h26 -> rolMemory(skip(c, 1), zeroPage(c))
      [] opcode = \h36 -> rolMemory(skip(c, 1), zeroPageX(c))
      [] opcode = \h2E -> rolMemory(skip(c, 2), absolute(c))
      [] opcode = \h3E -> rolMemory(skip(c, 2), Wrap16(absoluteX(c)))

\* const value = this.read(addr); this.write(addr, this.rotateRight(value))
rorMemory(c, addr) ==
    write(rotateRight(c, read(c, addr)), addr, rotateRightResult(c, read(c, addr)))

ROR(c, opcode) ==
    CASE opcode = \h6A -> [rotateRight(c, c.A) EXCEPT !.A = rotateRightResult(c, c.A)]
      [] opcode = \h66 -> rorMemory(skip(c, 1), zeroPage(c))
      [] opcode = \h76 -> rorMemory(skip(c, 1), zeroPageX(c))
      [] opcode = \h6E -> rorMemory(skip(c, 2), absolute(c))
      [] opcode = \h7E -> rorMemory(skip(c, 2), Wrap16(absoluteX(c)))

\* RTS that jumps to the pulled word itself: no `+ 1`.
RTSWithoutIncrement(c) ==
    LET lo == pulled(c)
        c1 == pull(c)
        hi == pulled(c1)
        c2 == pull(c1)
    IN  [c2 EXCEPT !.PC = And(Or(Shl(hi, 8), lo), 65535)]

RTS(c) ==
    LET lo == pulled(c)
        c1 == pull(c)
        hi == pulled(c1)
        c2 == pull(c1)
    IN  [c2 EXCEPT !.PC = And(Plus(Or(Shl(hi, 8), lo), 1), 65535)]

SBC(c, opcode) ==
    CASE opcode = \hE9 -> sbc(skip(c, 1), byte1(c))
      [] opcode = \hE5 -> sbc(skip(c, 1), read(c, zeroPage(c)))
      [] opcode = \hF5 -> sbc(skip(c, 1), read(c, zeroPageX(c)))
      [] opcode = \hED -> sbc(skip(c, 2), read(c, absolute(c)))
      [] opcode = \hFD -> sbc(skip(c, 2), read(c, Wrap16(absoluteX(c))))
      [] opcode = \hF9 -> sbc(skip(c, 2), read(c, Wrap16(absoluteY(c))))
      [] opcode = \hE1 -> sbc(skip(c, 1), read(c, indirectX(c)))
      [] opcode = \hF1 -> sbc(skip(c, 1), read(c, Wrap16(indirectY(c))))

\* SEC, SED, SEI that also set Break: this.SR |= mask | 0x10
setFlagBitAndBreak(c, mask) == [c EXCEPT !.SR = Or(Or(c.SR, mask), 16)]

\* SEC, SED, SEI: this.SR |= mask
setFlagBit(c, mask) == [c EXCEPT !.SR = Or(c.SR, mask)]

SEC(c) == setFlagBit(c, 1)
SED(c) == setFlagBit(c, 8)
SEI(c) == setFlagBit(c, 4)

STA(c, opcode) ==
    CASE opcode = \h85 -> write(skip(c, 1), zeroPage(c), c.A)
      [] opcode = \h95 -> write(skip(c, 1), zeroPageX(c), c.A)
      [] opcode = \h8D -> write(skip(c, 2), absolute(c), c.A)
      [] opcode = \h9D -> write(skip(c, 2), Wrap16(absoluteX(c)), c.A)
      [] opcode = \h99 -> write(skip(c, 2), Wrap16(absoluteY(c)), c.A)
      [] opcode = \h81 -> write(skip(c, 1), indirectX(c), c.A)
      [] opcode = \h91 -> write(skip(c, 1), Wrap16(indirectY(c)), c.A)

STX(c, opcode) ==
    CASE opcode = \h86 -> write(skip(c, 1), zeroPage(c), c.X)
      [] opcode = \h96 -> write(skip(c, 1), zeroPageY(c), c.X)
      [] opcode = \h8E -> write(skip(c, 2), absolute(c), c.X)

\* STY that stores X.
STYOfX(c, opcode) ==
    CASE opcode = \h84 -> write(skip(c, 1), zeroPage(c), c.X)
      [] opcode = \h94 -> write(skip(c, 1), zeroPageX(c), c.X)
      [] opcode = \h8C -> write(skip(c, 2), absolute(c), c.X)

STY(c, opcode) ==
    CASE opcode = \h84 -> write(skip(c, 1), zeroPage(c), c.Y)
      [] opcode = \h94 -> write(skip(c, 1), zeroPageX(c), c.Y)
      [] opcode = \h8C -> write(skip(c, 2), absolute(c), c.Y)

TAX(c) == setZeroAndNegativeFlags([c EXCEPT !.X = c.A], c.A)

TAY(c) == setZeroAndNegativeFlags([c EXCEPT !.Y = c.A], c.A)

\* opcode.toString(16): the hexadecimal digits of a byte, most significant
\* first, without padding.
RECURSIVE toString16(_)
toString16(n) ==
    IF n < 16 THEN <<n>> ELSE Append(toString16(n \div 16), n % 16)

\* The default case with the opcode fetch undone: PC back on the opcode.
UnimplementedRewinding(c, opcode) ==
    [c EXCEPT !.PC = @ - 1,
              !.thrown = [name |-> "Error", message |-> toString16(opcode)]]


\* default: throw new Error(`Unimplemented opcode: ${opcode.toString(16)}`).
\* With opcode undefined, opcode.toString itself throws a TypeError.
Unimplemented(c, opcode) ==
    [c EXCEPT !.thrown =
        IF opcode = Undefined
        THEN [name |-> "TypeError", message |-> <<>>]
        ELSE [name |-> "Error", message |-> toString16(opcode)]]

step(c0) ==
    LET opcode == read(c0, c0.PC)
        c == skip(c0, 1)
    IN  CASE opcode = \hEA -> NOP(c)
          [] opcode \in {\h69, \h65, \h75, \h6D, \h7D, \h79, \h61, \h71} -> ADC(c, opcode)
          [] opcode \in {\h29, \h25, \h35, \h2D, \h3D, \h39, \h21, \h31} -> AND(c, opcode)
          [] opcode \in {\h0A, \h06, \h16, \h0E, \h1E} -> ASL(c, opcode)
          [] opcode = \h90 -> BCC(c)
          [] opcode = \hB0 -> BCS(c)
          [] opcode = \hF0 -> BEQ(c)
          [] opcode \in {\h24, \h2C} -> BIT(c, opcode)
          [] opcode = \h30 -> BMI(c)
          [] opcode = \hD0 -> BNE(c)
          [] opcode = \h10 -> BPL(c)
          [] opcode = \h00 -> BRK(c)
          [] opcode = \h50 -> BVC(c)
          [] opcode = \h70 -> BVS(c)
          [] opcode = \h18 -> CLC(c)
          [] opcode = \hD8 -> CLD(c)
          [] opcode = \h58 -> CLI(c)
          [] opcode = \hB8 -> CLV(c)
          [] opcode \in {\hC9, \hC5, \hD5, \hCD, \hDD, \hD9, \hC1, \hD1} -> CMP(c, opcode)
          [] opcode \in {\hE0, \hE4, \hEC} -> CPX(c, opcode)
          [] opcode \in {\hC0, \hC4, \hCC} -> CPY(c, opcode)
          [] opcode \in {\hC6, \hD6, \hCE, \hDE} -> DEC(c, opcode)
          [] opcode = \hCA -> DEX(c)
          [] opcode = \h88 -> DEY(c)
          [] opcode \in {\h49, \h45, \h55, \h4D, \h5D, \h59, \h41, \h51} -> EOR(c, opcode)
          [] opcode \in {\hE6, \hF6, \hEE, \hFE} -> INC(c, opcode)
          [] opcode = \hE8 -> INX(c)
          [] opcode = \hC8 -> INY(c)
          [] opcode \in {\h4C, \h6C} -> JMP(c, opcode)
          [] opcode = \h20 -> JSR(c)
          [] opcode \in {\hA9, \hAD, \hA5, \hB5, \hBD, \hB9, \hA1, \hB1} -> LDA(c, opcode)
          [] opcode \in {\hA2, \hA6, \hB6, \hAE, \hBE} -> LDX(c, opcode)
          [] opcode \in {\hA0, \hA4, \hB4, \hAC, \hBC} -> LDY(c, opcode)
          [] opcode \in {\h4A, \h46, \h56, \h4E, \h5E} -> LSR(c, opcode)
          [] opcode \in {\h09, \h05, \h15, \h0D, \h1D, \h19, \h01, \h11} -> ORA(c, opcode)
          [] opcode = \h48 -> PHA(c)
          [] opcode = \h08 -> PHP(c)
          [] opcode = \h68 -> PLA(c)
          [] opcode = \h28 -> PLP(c)
          [] opcode \in {\h2A, \h26, \h36, \h2E, \h3E} -> ROL(c, opcode)
          [] opcode \in {\h6A, \h66, \h76, \h6E, \h7E} -> ROR(c, opcode)
          [] opcode = \h60 -> RTS(c)
          [] opcode \in {\hE9, \hE5, \hF5, \hED, \hFD, \hF9, \hE1, \hF1} -> SBC(c, opcode)
          [] opcode = \h38 -> SEC(c)
          [] opcode = \hF8 -> SED(c)
          [] opcode = \h78 -> SEI(c)
          [] opcode \in {\h85, \h95, \h8D, \h9D, \h99, \h81, \h91} -> STA(c, opcode)
          [] opcode \in {\h86, \h96, \h8E} -> STX(c, opcode)
          [] opcode \in {\h84, \h94, \h8C} -> STY(c, opcode)
          [] opcode = \hAA -> TAX(c)
          [] opcode = \hA8 -> TAY(c)
          [] OTHER -> Unimplemented(c, opcode)

(***************************************************************************)
(* The driver.  A test of the repository builds a CPU, writes a program    *)
(* and the reset vector into cpu.memory, calls reset(), writes registers   *)
(* (cpu.A = ..., cpu.SR |= ...) and then calls step() some number of       *)
(* times; reset() may be called again at any point.                        *)
(***************************************************************************)
\* The fields of the object as they are now.
cpu == [A |-> A, X |-> X, Y |-> Y, SP |-> SP, PC |-> PC, SR |-> SR,
        memory |-> memory, thrown |-> thrown]

\* The object's fields become those of c.
Becomes(c) ==
    /\ A' = c.A
    /\ X' = c.X
    /\ Y' = c.Y
    /\ SP' = c.SP
    /\ PC' = c.PC
    /\ SR' = c.SR
    /\ memory' = c.memory
    /\ thrown' = c.thrown

\* cpu.memory.set(bytes, start), on a memory image.
SetBytes(mem, start, bytes) ==
    LET range == start .. (start + Len(bytes) - 1)
        all == [a \in DOMAIN mem \cup range |->
                   IF a \in range THEN bytes[a - start + 1] ELSE mem[a]]
    IN  [a \in {x \in DOMAIN all : all[x] # 0} |-> all[a]]

\* A memory image: `bytes` at `start`, and the reset vector pointing at `start`.
Program(start, bytes) ==
    SetBytes(SetBytes(<<>>, start, bytes), 65532, <<start % 256, start \div 256>>)

\* new CPU(): the field initialisers.
Init ==
    /\ A = 0
    /\ X = 0
    /\ Y = 0
    /\ SP = 253
    /\ PC = 0
    /\ SR = 36
    /\ memory = <<>>
    /\ thrown = NoError
    /\ phase = "new"
    /\ budget = 0
    /\ ram = <<>>
    /\ trace = <<>>

\* The driver writes one of `images` into the memory of the new object and
\* settles on making at most `calls` calls after the first reset().
Load(images, calls) ==
    /\ phase = "new"
    /\ \E m \in images : memory' = m
    /\ budget' = calls
    /\ phase' = "loaded"
    /\ UNCHANGED <<A, X, Y, SP, PC, SR, thrown, ram, trace>>

\* The driver's first cpu.reset().
Reset ==
    /\ phase = "loaded"
    /\ Becomes(reset([cpu EXCEPT !.thrown = NoError]))
    /\ trace' = Append(trace, [call |-> "reset", pre |-> cpu])
    /\ phase' = "ready"
    /\ UNCHANGED <<budget, ram>>

\* The driver writes registers before the first step(): one of `pokes`,
\* records of the fields A, X, Y, SP, SR.
Poke(pokes) ==
    /\ phase = "ready"
    /\ \E r \in pokes :
          /\ A' = r.A
          /\ X' = r.X
          /\ Y' = r.Y
          /\ SP' = r.SP
          /\ SR' = r.SR
    /\ trace' = Append(trace, [call |-> "poke", pre |-> cpu])
    /\ phase' = "run"
    /\ UNCHANGED <<PC, memory, thrown, budget, ram>>

\* cpu.step()
Step ==
    /\ phase \in {"ready", "run"}
    /\ budget > 0
    /\ Becomes(step([cpu EXCEPT !.thrown = NoError]))
    /\ trace' = Append(trace, [call |-> "step", pre |-> cpu])
    /\ phase' = "run"
    /\ budget' = budget - 1
    /\ UNCHANGED ram

\* cpu.reset() again, at any point after the first.
ResetAgain ==
    /\ phase \in {"ready", "run"}
    /\ budget > 0
    /\ Becomes(reset([cpu EXCEPT !.thrown = NoError]))
    /\ trace' = Append(trace, [call |-> "reset", pre |-> cpu])
    /\ phase' = "run"
    /\ budget' = budget - 1
    /\ UNCHANGED ram

\* The fields before the i-th call of the trace; for i = Len(trace) + 1 the
\* fields now.
Before(i) == IF i = Len(trace) + 1 THEN cpu ELSE trace[i].pre

\* The fields after the i-th call of the trace.
After(i) == Before(i + 1)

\* The calls of the trace.
Calls == 1 .. Len(trace)

\* The i-th call was a reset().
WasReset(i) == i \in Calls /\ trace[i].call = "reset"

\* The i-th call was a step() that fetched `opcode`.
Fetched(i, opcode) ==
    /\ i \in 1 .. Len(trace)
    /\ trace[i].call = "step"
    /\ read(trace[i].pre, trace[i].pre.PC) = opcode

\* The registers a poke leaves alone keep their values from reset().
Registers(a, x, y, sp, sr) == [A |-> a, X |-> x, Y |-> y, SP |-> sp, SR |-> sr]

Bytes == 0 .. 255

\* Bit n of a byte.
Bit(v, n) == (v \div (2 ^ n)) % 2

\* Bytes at and around the edges of the unsigned and the signed range.
EdgeBytes == {0, 1, 2, 3, 5, 64, 66, 127, 128, 129, 192, 251, 254, 255}

(***************************************************************************)
(* Whole programs, as in program.test.ts: the driver loads a program at    *)
(* 0x8000, points the reset vector at it, calls reset() and then step()    *)
(* and reset() in any order.                                               *)
(***************************************************************************)
MaxCalls == 4

\* Where the program of the end-to-end test stores its sum: the address of
\* the test, the ends of the address space, the stack page, the program's
\* own bytes and the reset vector.
StoreTargets == {24576, 0, 255, 509, 32771, 65532, 65535}

\* LDA #a; ADC #b; STA lo hi
SumProgram(a, b, target) ==
    Program(32768, <<169, a, 105, b, 141, target % 256, target \div 256>>)

\* The other programs of program.test.ts: the X countdown, JSR/RTS, PHA/PLA.
TestPrograms ==
    { Program(32768, <<162, 3, 202, 208, 253, 142, 0, 96>>),
      Program(32768, <<32, 6, 128, 141, 0, 96, 169, 66, 96>>),
      Program(32768, <<169, 171, 72, 169, 0, 104>>) }

\* The official opcodes, as the coverage test lists them.
officialOpcodes ==
    { \h00, \h01, \h05, \h06, \h08, \h09, \h0A, \h0D, \h0E, \h10, \h11, \h15,
      \h16, \h18, \h19, \h1D, \h1E, \h20, \h21, \h24, \h25, \h26, \h28, \h29,
      \h2A, \h2C, \h2D, \h2E, \h30, \h31, \h35, \h36, \h38, \h39, \h3D, \h3E,
      \h40, \h41, \h45, \h46, \h48, \h49, \h4A, \h4C, \h4D, \h4E, \h50, \h51,
      \h55, \h56, \h58, \h59, \h5D, \h5E, \h60, \h61, \h65, \h66, \h68, \h69,
      \h6A, \h6C, \h6D, \h6E, \h70, \h71, \h75, \h76, \h78, \h79, \h7D, \h7E,
      \h81, \h84, \h85, \h86, \h88, \h8A, \h8C, \h8D, \h8E, \h90, \h91, \h94,
      \h95, \h96, \h98, \h99, \h9A, \h9D, \hA0, \hA1, \hA2, \hA4, \hA5, \hA6,
      \hA8, \hA9, \hAA, \hAC, \hAD, \hAE, \hB0, \hB1, \hB4, \hB5, \hB6, \hB8,
      \hB9, \hBA, \hBC, \hBD, \hBE, \hC0, \hC1, \hC4, \hC5, \hC6, \hC8, \hC9,
      \hCA, \hCC, \hCD, \hCE, \hD0, \hD1, \hD5, \hD6, \hD8, \hD9, \hDD, \hDE,
      \hE0, \hE1, \hE4, \hE5, \hE6, \hE8, \hE9, \hEA, \hEC, \hED, \hEE, \hF0,
      \hF1, \hF5, \hF6, \hF8, \hF9, \hFD, \hFE }

\* The memory of the coverage test: one official opcode at 0x8000, every
\* other byte but the reset vector zero.
OpcodeImages == {Program(32768, <<opcode>>) : opcode \in officialOpcodes}

\* The opcodes the switch of step() has a case for.
handledOpcodes ==
    { \h00, \h01, \h05, \h06, \h08, \h09, \h0A, \h0D, \h0E, \h10, \h11, \h15,
      \h16, \h18, \h19, \h1D, \h1E, \h20, \h21, \h24, \h25, \h26, \h28, \h29,
      \h2A, \h2C, \h2D, \h2E, \h30, \h31, \h35, \h36, \h38, \h39, \h3D, \h3E,
      \h41, \h45, \h46, \h48, \h49, \h4A, \h4C, \h4D, \h4E, \h50, \h51, \h55,
      \h56, \h58, \h59, \h5D, \h5E, \h60, \h61, \h65, \h66, \h68, \h69, \h6A,
      \h6C, \h6D, \h6E, \h70, \h71, \h75, \h76, \h78, \h79, \h7D, \h7E, \h81,
      \h84, \h85, \h86, \h88, \h8C, \h8D, \h8E, \h90, \h91, \h94, \h95, \h96,
      \h99, \h9D, \hA0, \hA1, \hA2, \hA4, \hA5, \hA6, \hA8, \hA9, \hAA, \hAC,
      \hAD, \hAE, \hB0, \hB1, \hB4, \hB5, \hB6, \hB8, \hB9, \hBC, \hBD, \hBE,
      \hC0, \hC1, \hC4, \hC5, \hC6, \hC8, \hC9, \hCA, \hCC, \hCD, \hCE, \hD0,
      \hD1, \hD5, \hD6, \hD8, \hD9, \hDD, \hDE, \hE0, \hE1, \hE4, \hE5, \hE6,
      \hE8, \hE9, \hEA, \hEC, \hED, \hEE, \hF0, \hF1, \hF5, \hF6, \hF8, \hF9,
      \hFD, \hFE }

\* Memory for programs that run any byte as an opcode: data in the zero
\* page, at 0x6010 and in the last byte, where the operand pairs below
\* point their zero-page, absolute and indirect forms.
DataBytes ==
    SetBytes(SetBytes(SetBytes(<<>>, 16, <<255, 127>>), 24592, <<128>>), 65535, <<1>>)

\* The operand bytes that follow the opcode.
OperandPairs == {<<0, 0>>, <<16, 96>>, <<255, 255>>, <<128, 1>>}

\* PLP; opcode b1 b2 at 0x8000, with `pulledByte` where the PLP pulls it
\* from (0x01FE): the opcode runs on the flags the PLP loaded.
AfterPlpImage(pulledByte, opcode, operands) ==
    SetBytes(SetBytes(SetBytes(DataBytes, 510, <<pulledByte>>),
                      32768, <<40, opcode, operands[1], operands[2]>>),
             65532, <<0, 128>>)

\* PLA; transfer; opcode b1 b2 at 0x8000, with `pulledByte` where the PLA
\* pulls it from: the opcode runs on A = X or A = Y = pulledByte.
AfterPlaImage(pulledByte, transfer, opcode, operands) ==
    SetBytes(SetBytes(SetBytes(DataBytes, 510, <<pulledByte>>),
                      32768, <<104, transfer, opcode, operands[1], operands[2]>>),
             65532, <<0, 128>>)

\* opcode b1 b2 starting at p = 0xFFFE or 0xFFFF, the bytes after 0xFFFF in
\* 0x0000 and on, and the reset vector pointing at p.
AcrossTopImage(p, opcode, operands) ==
    SetBytes(SetBytes(SetBytes(SetBytes(<<>>, (p + 2) % 65536, <<operands[2]>>),
                               (p + 1) % 65536, <<operands[1]>>),
                      p, <<opcode>>),
             65532, <<p % 256, p \div 256>>)

AnyOpcodeImages ==
    {AfterPlpImage(b, opcode, operands) :
        b \in {0, 1, 2, 64, 128, 195, 60, 255}, opcode \in Bytes, operands \in OperandPairs}
      \cup {AfterPlaImage(b, transfer, opcode, operands) :
                b \in {1, 128, 255}, transfer \in {170, 168}, opcode \in Bytes,
                operands \in {<<16, 96>>, <<255, 255>>}}
      \cup {AcrossTopImage(p, opcode, operands) :
                p \in {65534, 65535}, opcode \in Bytes, operands \in {<<0, 0>>, <<5, 144>>}}

\* The opcodes of the Absolute,X, the Absolute,Y and the (zp),Y forms.
AbsoluteXOpcodes ==
    {\h7D, \h3D, \h1E, \hDD, \hDE, \h5D, \hFE, \hBD, \hBC, \h5E, \h1D, \h3E, \h7E, \hFD, \h9D}

AbsoluteYOpcodes == {\h79, \h39, \hD9, \h59, \hB9, \hBE, \h19, \hF9, \h99}

IndirectYOpcodes == {\h71, \h31, \hD1, \h51, \hB1, \h11, \hF1, \h91}

\* LDX #index; LDY #index; opcode b1 b2 at 0x8000, over bytes at 0x0000,
\* 0x007F, 0x6000, 0x6001 and 0x60FF, where base + index lands.
IndexedImage(index, opcode, operands, data) ==
    SetBytes(SetBytes(SetBytes(SetBytes(SetBytes(data, 0, <<85>>), 127, <<170>>),
                               24576, <<129, 126>>), 24831, <<1>>),
             32768, <<162, index, 160, index, opcode, operands[1], operands[2]>>)

\* The words 0xFFFF, 0xFF80 and 0x6000 as absolute operands, and as the
\* pointers at zero-page 0x10/0x11 and 0xFF/0x00 for the (zp),Y forms.
IndexedImages ==
    {IndexedImage(index, opcode, <<w % 256, w \div 256>>, Program(32768, <<>>)) :
        index \in {0, 1, 255}, opcode \in AbsoluteXOpcodes \cup AbsoluteYOpcodes,
        w \in {65535, 65408, 24576}}
      \cup {SetBytes(SetBytes(IndexedImage(index, opcode, <<zp, 0>>, Program(32768, <<>>)),
                              zp, <<w % 256>>), (zp + 1) % 256, <<w \div 256>>) :
                index \in {0, 1, 255}, opcode \in IndirectYOpcodes, zp \in {16, 255},
                w \in {65535, 65408, 24576}}

ProgramImages ==
    {SumProgram(a, b, t) : a \in EdgeBytes, b \in EdgeBytes, t \in StoreTargets}
        \cup TestPrograms \cup OpcodeImages \cup AnyOpcodeImages \cup IndexedImages

Next == Load(ProgramImages, MaxCalls) \/ Reset \/ Step \/ ResetAgain

Spec == Init /\ [][Next]_vars

\* The i-th call was the reset() of the coverage test and the next one its
\* step(): the reset vector is 0x8000 and 0x8000 holds an official opcode.
CoverageStep(i) ==
    /\ WasReset(i)
    /\ After(i).PC = 32768
    /\ read(After(i), 32768) \in officialOpcodes
    /\ Fetched(i + 1, read(After(i), 32768))

\* C1: for every official opcode at 0x8000 after a reset() with the reset
\* vector at 0x8000, step() completes without the unimplemented-opcode
\* failure.
C1_OfficialOpcodesHandled ==
    \A i \in Calls : CoverageStep(i) => After(i + 1).thrown.name # "Error"

\* The driver loaded LDA #a; ADC #b; STA t, called reset() and then step()
\* exactly three times.
RanSumProgram ==
    /\ Len(trace) = 4
    /\ trace[1].call = "reset"
    /\ \A i \in 2 .. 4 : trace[i].call = "step"
    /\ Before(2).PC = 32768
    /\ read(Before(2), 32768) = 169
    /\ read(Before(2), 32770) = 105
    /\ read(Before(2), 32772) = 141

\* C2: with A9 a 69 b 8D lo hi at 0x8000 and the reset vector at 0x8000,
\* reset() and three step() calls leave A = (a + b) mod 256 and
\* memory[hi*256 + lo] = (a + b) mod 256.
C2_SumProgram ==
    RanSumProgram =>
        LET a == read(Before(2), 32769)
            b == read(Before(2), 32771)
            target == read(Before(2), 32774) * 256 + read(Before(2), 32773)
        IN  /\ A = (a + b) % 256
            /\ Element(memory, target) = (a + b) % 256

\* The instance of the test: a = 3, b = 5, target 0x6000, A = memory[0x6000] = 8.
C2_Witness ==
    /\ RanSumProgram
    /\ read(Before(2), 32769) = 3
    /\ read(Before(2), 32771) = 5
    /\ read(Before(2), 32773) = 0
    /\ read(Before(2), 32774) = 96
    /\ A = 8
    /\ Element(memory, 24576) = 8

\* C3: from any state reached by step() calls, reset() sets A = X = Y = 0,
\* SP = 0xFD, flags = 0x24 and PC to the little-endian word at 0xFFFC/0xFFFD,
\* leaves memory unchanged, and a second reset() right after it changes
\* nothing at all.
C3_Reset ==
    \A i \in Calls :
        WasReset(i) =>
            /\ After(i).A = 0
            /\ After(i).X = 0
            /\ After(i).Y = 0
            /\ After(i).SP = 253
            /\ After(i).SR = 36
            /\ After(i).PC = Element(Before(i).memory, 65532)
                                + 256 * Element(Before(i).memory, 65533)
            /\ After(i).memory = Before(i).memory
            /\ WasReset(i + 1) => After(i + 1) = After(i)

\* Two reset() calls in a row after steps that changed A, the flags, PC and
\* the memory.
C3_Witness ==
    \E i \in Calls :
        /\ WasReset(i)
        /\ WasReset(i + 1)
        /\ Before(i).A # 0
        /\ Before(i).SR # 36
        /\ Before(i).PC # After(i).PC
        /\ Before(i).memory # Before(1).memory

(***************************************************************************)
(* Arithmetic: ADC #M then SBC #M from every accumulator, operand and      *)
(* carry, with the other flags as reset() leaves them or all set.          *)
(***************************************************************************)
MaxStepsArith == 2

ArithImages == {Program(32768, <<105, m, 233, m>>) : m \in Bytes}

ArithPokes ==
    {Registers(a, 0, 0, 253, sr) : a \in Bytes, sr \in {36, 37}}
        \cup {Registers(a, 0, 0, 253, sr) : a \in EdgeBytes, sr \in {238, 239}}

NextArith == Load(ArithImages, MaxStepsArith) \/ Reset \/ Poke(ArithPokes) \/ Step

SpecArith == Init /\ [][NextArith]_vars

\* The operand byte of the immediate instruction the i-th call executed.
Immediate(i) == read(Before(i), Before(i).PC + 1)

\* The i-th call executed ADC #M on an accumulator holding a byte.
AdcImmediate(i) ==
    /\ Fetched(i, 105)
    /\ Before(i).A \in Bytes
    /\ Immediate(i) \in Bytes

\* C4: for all A, M in 0..255 and carry-in c, ADC with operand M leaves
\* A = (A + M + c) mod 256, Carry set iff A + M + c > 255, Overflow set iff
\* the result's sign differs from A's while M's sign equals A's, Zero and
\* Negative set from the new A; a Carry or Overflow that was set is cleared
\* when its condition does not hold.
C4_AdcArithmetic ==
    \A i \in Calls :
        AdcImmediate(i) =>
            LET a == Before(i).A
                m == Immediate(i)
                sum == a + m + Bit(Before(i).SR, 0)
                result == sum % 256
                sr == After(i).SR
            IN  /\ After(i).A = result
                /\ Bit(sr, 0) = (IF sum > 255 THEN 1 ELSE 0)
                /\ Bit(sr, 6) = (IF Bit(a, 7) # Bit(result, 7) /\ Bit(a, 7) = Bit(m, 7)
                                 THEN 1 ELSE 0)
                /\ Bit(sr, 1) = (IF result = 0 THEN 1 ELSE 0)
                /\ Bit(sr, 7) = Bit(result, 7)

\* An ADC that started with Carry and Overflow set and cleared both.
C4_Witness ==
    \E i \in Calls :
        /\ AdcImmediate(i)
        /\ Bit(Before(i).SR, 0) = 1 /\ Bit(Before(i).SR, 6) = 1
        /\ Bit(After(i).SR, 0) = 0 /\ Bit(After(i).SR, 6) = 0
        /\ After(i).A = Before(i).A + Immediate(i) + 1

\* The i-th call executed ADC #M and the next one SBC #M, with the same M,
\* the SBC starting from the fields the ADC left.
AdcThenSbc(i) ==
    /\ AdcImmediate(i)
    /\ Fetched(i + 1, 233)
    /\ Immediate(i + 1) = Immediate(i)

\* C5 as stated: ADC M then SBC M, the SBC using the carry the ADC left,
\* gives back the original accumulator, for all A, M and carry-in.
C5_AdcSbcRestoresA ==
    \A i \in Calls : AdcThenSbc(i) => After(i + 1).A = Before(i).A

\* C5 as amended: ADC M then SBC M leaves (A + c + c' - 1) mod 256, where c
\* is the carry before the ADC and c' the carry the ADC left; that is the
\* original A exactly when c' differs from c.
C5_AdcSbcOffByCarries ==
    \A i \in Calls :
        AdcThenSbc(i) =>
            LET a == Before(i).A
                c1 == Bit(Before(i).SR, 0)
                c2 == Bit(After(i).SR, 0)
            IN  /\ After(i + 1).A = (a + c1 + c2 - 1) % 256
                /\ (After(i + 1).A = a) = (c1 # c2)

\* ADC then SBC that did give back the accumulator: carry clear before, and
\* the ADC carried out.
C5_Witness ==
    \E i \in Calls :
        /\ AdcThenSbc(i)
        /\ Bit(Before(i).SR, 0) = 0
        /\ Bit(After(i).SR, 0) = 1
        /\ After(i + 1).A = Before(i).A
        /\ Immediate(i) # 0

(***************************************************************************)
(* Branches: each of the eight branch opcodes at the program's start, at   *)
(* the bottom of the address space and in its last two bytes, over         *)
(* displacements of both signs and every combination of C, Z, V and N.     *)
(***************************************************************************)
MaxStepsBranch == 2

\* BCC, BCS, BEQ, BNE, BMI, BPL, BVC, BVS
BranchOpcodes == {\h90, \hB0, \hF0, \hD0, \h30, \h10, \h50, \h70}

\* Where the branch is: 0x8000, 0x0000, 0xFFFE, 0xFFFF.
BranchSites == {32768, 0, 65534, 65535}

\* The opcode at p, the displacement in the byte after it (which for
\* p = 0xFFFF is the byte at 0x0000: cpu.memory has no element 0x10000), and
\* the reset vector pointing at p.
BranchImage(p, opcode, d) ==
    SetBytes(SetBytes(SetBytes(<<>>, (p + 1) % 65536, <<d>>), p, <<opcode>>),
             65532, <<p % 256, p \div 256>>)

BranchImages ==
    {BranchImage(p, opcode, d) : p \in BranchSites, opcode \in BranchOpcodes, d \in EdgeBytes}

\* cpu.SR |= ..., cpu.SR &= ...: C, Z, V and N set or clear.
BranchPokes ==
    {Registers(0, 0, 0, 253, 36 + c + 2 * z + 64 * v + 128 * n) :
        c \in {0, 1}, z \in {0, 1}, v \in {0, 1}, n \in {0, 1}}

NextBranch == Load(BranchImages, MaxStepsBranch) \/ Reset \/ Poke(BranchPokes) \/ Step

SpecBranch == Init /\ [][NextBranch]_vars

\* The flag condition the branch opcode names holds in the flag byte sr.
BranchCondition(opcode, sr) ==
    CASE opcode = \h90 -> Bit(sr, 0) = 0
      [] opcode = \hB0 -> Bit(sr, 0) = 1
      [] opcode = \hF0 -> Bit(sr, 1) = 1
      [] opcode = \hD0 -> Bit(sr, 1) = 0
      [] opcode = \h30 -> Bit(sr, 7) = 1
      [] opcode = \h10 -> Bit(sr, 7) = 0
      [] opcode = \h50 -> Bit(sr, 6) = 0
      [] opcode = \h70 -> Bit(sr, 6) = 1

\* The displacement of the branch the i-th call executed: the byte after the
\* opcode in the 16-bit address space, as a signed number.
Displacement(i) ==
    LET d == Element(Before(i).memory, (Before(i).PC + 1) % 65536)
    IN  IF d < 128 THEN d ELSE d - 256

\* C6: a branch opcode at p with displacement byte d ends with
\* PC = (p + 2 + signed(d)) mod 65536 when its flag condition holds and with
\* PC = p + 2 when it does not.
C6_BranchTarget ==
    \A i \in Calls : \A opcode \in BranchOpcodes :
        Fetched(i, opcode) =>
            LET p == Before(i).PC
            IN  After(i).PC = IF BranchCondition(opcode, Before(i).SR)
                              THEN (p + 2 + Displacement(i)) % 65536
                              ELSE p + 2

(***************************************************************************)
(* Jumps: JSR to a subroutine that returns at once, from every stack       *)
(* pointer, with the JSR at the program's start and in the last bytes of   *)
(* the address space; and JMP indirect through pointers at the end of a    *)
(* page, inside one and at its start.                                      *)
(***************************************************************************)
MaxStepsJump == 3

\* JSR t at 0x8000 and RTS at t.
JsrImage(t) ==
    SetBytes(Program(32768, <<32, t % 256, t \div 256>>), t, <<96>>)

\* JSR t in the last three bytes, 0xFFFD..0xFFFF, and RTS at t.  The JSR
\* opcode is the high byte of the reset vector, so reset() starts the
\* program at 0x2000, where JMP $FFFD leads to the JSR.
JsrImageFFFD(t) ==
    SetBytes(SetBytes(SetBytes(<<>>, 8192, <<76, 253, 255>>),
                      65532, <<0, 32, t % 256, t \div 256>>),
             t, <<96>>)

\* JSR t at p = 0xFFFE or 0xFFFF, the operand bytes following it in the
\* 16-bit address space (so in 0x0000 and on), RTS at t and the reset
\* vector pointing at p.
JsrImageAcrossTop(p, t) ==
    SetBytes(SetBytes(SetBytes(SetBytes(SetBytes(<<>>, t, <<96>>),
                                        (p + 2) % 65536, <<t \div 256>>),
                               (p + 1) % 65536, <<t % 256>>),
                      p, <<32>>),
             65532, <<p % 256, p \div 256>>)

\* JMP (ptr) at 0x8000; lo at ptr, hi at the byte after ptr within ptr's
\* page, and `other` at ptr + 1 when that is in the next page.
JmpImage(ptr, lo, hi, other) ==
    SetBytes(SetBytes(SetBytes(Program(32768, <<108, ptr % 256, ptr \div 256>>),
                               (ptr + 1) % 65536, <<other>>),
                      (ptr \div 256) * 256 + ((ptr + 1) % 256), <<hi>>),
             ptr, <<lo>>)

\* Pointers 0x10FF, 0x1000, 0x10FE, 0x00FF, 0x02FF, 0x1234, 0xFFFF.
JmpPointers == {4351, 4096, 4350, 255, 767, 4660, 65535}

JumpImages ==
    {JsrImage(t) : t \in {36864, 32771, 0, 65535, 255}}
        \cup {JsrImageFFFD(t) : t \in {36864, 0}}
        \cup {JsrImageAcrossTop(p, t) : p \in {65534, 65535}, t \in {36864, 16}}
        \cup {JmpImage(ptr, lo, hi, other) :
                 ptr \in JmpPointers, lo \in {120, 0, 255}, hi \in {86, 0, 255},
                 other \in {18, 0}}

\* cpu.SP = ...: every stack pointer.
JumpPokes == {Registers(0, 0, 0, sp, 36) : sp \in Bytes}

NextJump == Load(JumpImages, MaxStepsJump) \/ Reset \/ Poke(JumpPokes) \/ Step

SpecJump == Init /\ [][NextJump]_vars

\* The word following the opcode of the instruction the i-th call executed,
\* in the 16-bit address space.
OperandWord(i) ==
    Element(Before(i).memory, (Before(i).PC + 1) % 65536)
        + 256 * Element(Before(i).memory, (Before(i).PC + 2) % 65536)

\* The i-th call executed a JSR whose target held an RTS, from a stack
\* pointer in 0..255, and the next call was a step().
JsrToRts(i) ==
    /\ Fetched(i, 32)
    /\ Before(i).SP \in Bytes
    /\ Element(Before(i).memory, OperandWord(i)) = 96
    /\ i + 1 \in Calls
    /\ trace[i + 1].call = "step"

\* C7: JSR at p to a target holding RTS, then the next step(), ends with
\* PC = p + 3 and SP as it was before the JSR, from every SP in 0..255.
C7_JsrRtsReturns ==
    \A i \in Calls :
        JsrToRts(i) =>
            /\ After(i + 1).PC = Before(i).PC + 3
            /\ After(i + 1).SP = Before(i).SP

\* The i-th call executed JMP indirect with both pointer bytes in memory.
JmpIndirect(i) ==
    /\ Fetched(i, 108)
    /\ Before(i).PC + 2 \in Addresses

\* C8: JMP indirect with pointer ptr sets PC to hi * 256 + lo, where
\* lo = memory[ptr] and hi = memory[(ptr & 0xFF00) | ((ptr + 1) & 0xFF)]:
\* the high byte comes from the start of ptr's page when ptr ends in 0xFF.
C8_JmpIndirect ==
    \A i \in Calls :
        JmpIndirect(i) =>
            LET ptr == OperandWord(i)
                lo == Element(Before(i).memory, ptr)
                hi == Element(Before(i).memory, (ptr \div 256) * 256 + ((ptr + 1) % 256))
            IN  After(i).PC = hi * 256 + lo

\* The instance of the test: pointer 0x10FF, 0x78 at 0x10FF, 0x56 at 0x1000
\* and another byte at 0x1100 give PC = 0x5678.
C8_Witness ==
    \E i \in Calls :
        /\ JmpIndirect(i)
        /\ OperandWord(i) = 4351
        /\ Element(Before(i).memory, 4351) = 120
        /\ Element(Before(i).memory, 4096) = 86
        /\ Element(Before(i).memory, 4352) = 18
        /\ After(i).PC = 22136

(***************************************************************************)
(* The flag byte on the stack: PHP then PLP from every flag byte the       *)
(* driver can write (the tests write cpu.SR directly) and from stack       *)
(* pointers at both ends of the stack page, at the program's start and     *)
(* after a BRK has set the Break flag.                                     *)
(***************************************************************************)
MaxStepsStack == 3

\* PHP; PLP at 0x8000.  And BRK at 0x8000 with the interrupt vector at
\* 0xFFFE/0xFFFF pointing at 0x9000, where PHP; PLP are.
StackImages ==
    { Program(32768, <<8, 40>>),
      SetBytes(SetBytes(Program(32768, <<0>>), 65534, <<0, 144>>), 36864, <<8, 40>>) }

\* cpu.SR = ..., cpu.SP = ...
StackPokes == {Registers(0, 0, 0, sp, sr) : sp \in {0, 1, 127, 253, 255}, sr \in Bytes}

NextStack == Load(StackImages, MaxStepsStack) \/ Reset \/ Poke(StackPokes) \/ Step

SpecStack == Init /\ [][NextStack]_vars

\* The i-th call executed PHP and the next one PLP.
PhpThenPlp(i) ==
    /\ Fetched(i, 8)
    /\ Fetched(i + 1, 40)
    /\ Before(i).SR \in Bytes
    /\ Before(i).SP \in Bytes

\* C9 as stated: PHP then PLP leaves every flag bit other than bit 4 as it
\* was before the PHP, bit 4 clear, and SP as it was, for every flag byte.
C9_PhpPlpRestoresAllButBreak ==
    \A i \in Calls :
        PhpThenPlp(i) =>
            /\ \A n \in (0 .. 7) \ {4} : Bit(After(i + 1).SR, n) = Bit(Before(i).SR, n)
            /\ Bit(After(i + 1).SR, 4) = 0
            /\ After(i + 1).SP = Before(i).SP

\* C9 as amended: PHP then PLP leaves C, Z, I, D, V and N (bits 0, 1, 2, 3,
\* 6, 7) as they were before the PHP, bit 4 clear and bit 5 set whatever
\* they were, and SP as it was, for every flag byte.
C9_PhpPlpRestoresNamedFlags ==
    \A i \in Calls :
        PhpThenPlp(i) =>
            /\ \A n \in {0, 1, 2, 3, 6, 7} : Bit(After(i + 1).SR, n) = Bit(Before(i).SR, n)
            /\ Bit(After(i + 1).SR, 4) = 0
            /\ Bit(After(i + 1).SR, 5) = 1
            /\ After(i + 1).SP = Before(i).SP

\* PHP then PLP right after a BRK that set bit 4, from a flag byte with
\* bit 5 clear and a stack pointer at the bottom of the stack page.
C9_Witness ==
    \E i \in Calls :
        /\ Fetched(i - 1, 0)
        /\ PhpThenPlp(i)
        /\ Bit(Before(i - 1).SR, 4) = 0
        /\ Bit(Before(i).SR, 4) = 1
        /\ Bit(Before(i).SR, 5) = 0
        /\ Before(i).SP = 0
        /\ After(i).SP = 255
        /\ After(i + 1).SR = Before(i).SR - 16 + 32

(***************************************************************************)
(* Increments and decrements: INC then DEC and DEC then INC of a memory    *)
(* byte in each addressing mode, INX/DEX and INY/DEY, over every value of  *)
(* the byte and of the registers.                                          *)
(***************************************************************************)
MaxStepsIncDec == 2

\* first zp; second zp, with v at zp = 0x10.
IncDecZeroPage(first, second, v) ==
    SetBytes(Program(32768, <<first, 16, second, 16>>), 16, <<v>>)

\* first $6000; second $6000, with v at 0x6000.
IncDecAbsolute(first, second, v) ==
    SetBytes(Program(32768, <<first, 0, 96, second, 0, 96>>), 24576, <<v>>)

\* first $FFF0; second $FFF0, for the X-indexed forms to pass 0xFFFF.
IncDecTop(first, second, v) ==
    SetBytes(Program(32768, <<first, 240, 255, second, 240, 255>>), 65520, <<v>>)

IncDecImages ==
    {IncDecZeroPage(230, 198, v) : v \in Bytes}
        \cup {IncDecZeroPage(198, 230, v) : v \in Bytes}
        \cup {IncDecZeroPage(246, 214, v) : v \in EdgeBytes}
        \cup {IncDecZeroPage(214, 246, v) : v \in EdgeBytes}
        \cup {IncDecAbsolute(238, 206, v) : v \in EdgeBytes}
        \cup {IncDecAbsolute(206, 238, v) : v \in EdgeBytes}
        \cup {IncDecAbsolute(254, 222, v) : v \in EdgeBytes}
        \cup {IncDecTop(222, 254, v) : v \in EdgeBytes}
        \cup { Program(32768, <<232, 202>>), Program(32768, <<202, 232>>),
               Program(32768, <<200, 136>>), Program(32768, <<136, 200>>) }

\* cpu.X = ..., cpu.Y = ...
IncDecPokes == {Registers(0, v, v, 253, 36) : v \in Bytes}

NextIncDec == Load(IncDecImages, MaxStepsIncDec) \/ Reset \/ Poke(IncDecPokes) \/ Step

SpecIncDec == Init /\ [][NextIncDec]_vars

\* +1 for INC, INX, INY; -1 for DEC, DEX, DEY; 0 for any other opcode.
Direction(opcode) ==
    IF opcode \in {\hE6, \hF6, \hEE, \hFE, \hE8, \hC8} THEN 1
    ELSE IF opcode \in {\hC6, \hD6, \hCE, \hDE, \hCA, \h88} THEN -1
    ELSE 0

\* The location the increment or decrement of the i-th call works on: X, Y
\* or the memory byte its addressing mode names.
Location(i) ==
    LET c == Before(i)
        opcode == read(c, c.PC)
        zp == Element(c.memory, (c.PC + 1) % 65536)
    IN  CASE opcode \in {\hE8, \hCA} -> [kind |-> "X", addr |-> 0]
          [] opcode \in {\hC8, \h88} -> [kind |-> "Y", addr |-> 0]
          [] opcode \in {\hE6, \hC6} -> [kind |-> "memory", addr |-> zp]
          [] opcode \in {\hF6, \hD6} -> [kind |-> "memory", addr |-> (zp + c.X) % 256]
          [] opcode \in {\hEE, \hCE} -> [kind |-> "memory", addr |-> OperandWord(i)]
          [] opcode \in {\hFE, \hDE} ->
               [kind |-> "memory", addr |-> (OperandWord(i) + c.X) % 65536]
          [] OTHER -> [kind |-> "none", addr |-> 0]

\* The value the fields c hold at a location.
Held(c, location) ==
    CASE location.kind = "X" -> c.X
      [] location.kind = "Y" -> c.Y
      [] OTHER -> Element(c.memory, location.addr)

\* The i-th call and the next one executed an increment and a decrement, in
\* either order, of the same location, which held a byte.
IncAndDec(i) ==
    /\ i + 1 \in Calls
    /\ trace[i].call = "step"
    /\ trace[i + 1].call = "step"
    /\ Before(i).PC + 2 \in Addresses
    /\ Before(i + 1).PC + 2 \in Addresses
    /\ Before(i).X \in Bytes
    /\ Before(i).Y \in Bytes
    /\ Direction(read(Before(i), Before(i).PC))
           * Direction(read(Before(i + 1), Before(i + 1).PC)) = -1
    /\ Location(i) = Location(i + 1)

\* C10: INC then DEC, or DEC then INC, of a memory byte, of X or of Y that
\* held v leaves v there, Zero set iff v = 0 and Negative equal to bit 7
\* of v.
C10_IncDecRestores ==
    \A i \in Calls :
        IncAndDec(i) =>
            LET v == Held(Before(i), Location(i))
                sr == After(i + 1).SR
            IN  /\ Held(After(i + 1), Location(i)) = v
                /\ Bit(sr, 1) = (IF v = 0 THEN 1 ELSE 0)
                /\ Bit(sr, 7) = Bit(v, 7)

\* DEC then INC of a memory byte holding 0, through 255: Zero ends set and
\* Negative clear.
C10_Witness ==
    \E i \in Calls :
        /\ IncAndDec(i)
        /\ Fetched(i, 198)
        /\ Fetched(i + 1, 230)
        /\ Held(Before(i), Location(i)) = 0
        /\ Held(After(i), Location(i)) = 255
        /\ Bit(After(i).SR, 7) = 1
        /\ Held(After(i + 1), Location(i)) = 0
        /\ Bit(After(i + 1).SR, 1) = 1
        /\ Bit(After(i + 1).SR, 7) = 0

(***************************************************************************)
(* Any byte as an opcode, under the program specification Spec: after a    *)
(* PLP that loaded the flags or a PLA and a transfer that loaded the       *)
(* registers, and in the last two bytes of the address space.              *)
(***************************************************************************)
\* The i-th call was a step().
WasStep(i) == i \in Calls /\ trace[i].call = "step"

\* The byte the i-th call, a step(), found at PC.
Opcode(i) == read(Before(i), Before(i).PC)

\* C11: in every state reset() and then step() calls reach, the flag
\* register is a byte with bit 5 set.
C11_Bit5AlwaysSet ==
    \A i \in Calls : After(i).SR \in Bytes /\ Bit(After(i).SR, 5) = 1

\* A PLP that pulled a byte with bit 5 clear, and an instruction after it.
C11_Witness ==
    \E i \in Calls :
        /\ Fetched(i, 40)
        /\ Before(i).SP = 253
        /\ Element(Before(i).memory, 510) = 195
        /\ After(i).SR = 227
        /\ WasStep(i + 1)
        /\ After(i + 1).SR # After(i).SR

\* The i-th call was a step() that fetched a byte with no case in the
\* switch.
FetchedUnhandled(i) ==
    /\ WasStep(i)
    /\ Opcode(i) \in Bytes \ handledOpcodes

\* C12: a step() that fetches an opcode with no handler fails with a failure
\* carrying the opcode, leaves PC one past the opcode and A, X, Y, SP, the
\* flags and the memory as they were; the next step() fetches the byte
\* after the opcode.
C12_UnimplementedOpcode ==
    \A i \in Calls :
        FetchedUnhandled(i) =>
            /\ After(i).thrown = [name |-> "Error", message |-> toString16(Opcode(i))]
            /\ After(i).PC = Before(i).PC + 1
            /\ After(i).A = Before(i).A
            /\ After(i).X = Before(i).X
            /\ After(i).Y = Before(i).Y
            /\ After(i).SP = Before(i).SP
            /\ After(i).SR = Before(i).SR
            /\ After(i).memory = Before(i).memory
            /\ WasStep(i + 1) => Fetched(i + 1, read(Before(i), Before(i).PC + 1))

\* RTI (0x40) at 0x8001 with BPL after it: the step() on 0x40 fails with
\* "40" and the next one executes the BPL.
C12_Witness ==
    \E i \in Calls :
        /\ FetchedUnhandled(i)
        /\ Opcode(i) = 64
        /\ Before(i).PC = 32769
        /\ After(i).thrown.message = <<4, 0>>
        /\ Fetched(i + 1, 16)
        /\ After(i + 1).thrown = NoError

\* C13: a step() either completes or fails with the unimplemented-opcode
\* failure carrying the byte it fetched, a value in 0..255; it fails in no
\* other way.
C13_OnlyUnimplementedFails ==
    \A i \in Calls :
        WasStep(i) =>
            \/ After(i).thrown = NoError
            \/ /\ Opcode(i) \in Bytes
               /\ After(i).thrown = [name |-> "Error", message |-> toString16(Opcode(i))]

\* C14: in every state reset() and then step() calls reach, A, X, Y and SP
\* are integers in 0..255 and PC is an integer in 0..65535.
C14_RegistersInRange ==
    \A i \in Calls :
        /\ After(i).A \in Bytes
        /\ After(i).X \in Bytes
        /\ After(i).Y \in Bytes
        /\ After(i).SP \in Bytes
        /\ After(i).PC \in Addresses

\* Branches, JMP, JSR, RTS and BRK.
ControlOpcodes == BranchOpcodes \cup {\h4C, \h6C, \h20, \h60, \h00}

\* The operand width of an opcode's addressing mode, from the layout of the
\* 6502 opcode table: 2 for the absolute forms (low nibble C, D, E, and 9
\* in the odd rows), 0 for the implied and accumulator forms (low nibble 8
\* and A), 1 for the immediate, zero-page and zero-page-indirect forms.
OperandWidth(opcode) ==
    IF opcode % 16 \in {12, 13, 14} \/ (opcode % 16 = 9 /\ (opcode \div 16) % 2 = 1) THEN 2
    ELSE IF opcode % 16 \in {8, 10} THEN 0
    ELSE 1

\* C15: a step() on an implemented opcode that is not a branch, JMP, JSR,
\* RTS or BRK, starting with PC = p, ends with PC = p + 1 + w, w the operand
\* width of the opcode's addressing mode.
C15_PcAdvance ==
    \A i \in Calls :
        (WasStep(i) /\ Opcode(i) \in handledOpcodes \ ControlOpcodes) =>
            After(i).PC = Before(i).PC + 1 + OperandWidth(Opcode(i))

(***************************************************************************)
(* The stack: the driver calls cpu.push(value) and cpu.pull() itself, as   *)
(* the tests do, between step() calls of a program made of PHA, PHP, JSR,  *)
(* RTS, PLP and PLA, from every stack pointer.                             *)
(***************************************************************************)
MaxCallsPushPull == 3

\* cpu.push(value), for one of `values`.
Push(values) ==
    /\ phase \in {"ready", "run"}
    /\ budget > 0
    /\ \E value \in values :
          /\ Becomes(push([cpu EXCEPT !.thrown = NoError], value))
          /\ trace' = Append(trace, [call |-> "push", pre |-> cpu, value |-> value])
    /\ phase' = "run"
    /\ budget' = budget - 1
    /\ UNCHANGED ram

\* cpu.pull(); the trace keeps the value returned.
Pull ==
    /\ phase \in {"ready", "run"}
    /\ budget > 0
    /\ Becomes(pull([cpu EXCEPT !.thrown = NoError]))
    /\ trace' = Append(trace, [call |-> "pull", pre |-> cpu, value |-> pulled(cpu)])
    /\ phase' = "run"
    /\ budget' = budget - 1
    /\ UNCHANGED ram

\* PHA; PHP; PLP; PLA.  JSR $8003; RTS.  PHP; PLA; PHA.  And PLA; PLP;
\* RTS with bytes to pull at both ends of the stack page.
PushPullImages ==
    { Program(32768, <<72, 8, 40, 104>>),
      Program(32768, <<32, 3, 128, 96>>),
      Program(32768, <<8, 104, 72>>),
      SetBytes(SetBytes(Program(32768, <<104, 40, 96>>), 256, <<18, 52, 86>>),
               509, <<120, 154, 188>>) }

NextPushPull ==
    \/ Load(PushPullImages, MaxCallsPushPull)
    \/ Reset
    \/ Poke(JumpPokes)
    \/ Step
    \/ Push({153, 511})
    \/ Pull

SpecPushPull == Init /\ [][NextPushPull]_vars

\* How many bytes the i-th call pushes: push(), PHA and PHP one, JSR two.
Pushes(i) ==
    IF trace[i].call = "push" \/ Fetched(i, 72) \/ Fetched(i, 8) THEN 1
    ELSE IF Fetched(i, 32) THEN 2
    ELSE 0

\* How many bytes the i-th call pulls: pull(), PLA and PLP one, RTS two.
Pulls(i) ==
    IF trace[i].call = "pull" \/ Fetched(i, 104) \/ Fetched(i, 40) THEN 1
    ELSE IF Fetched(i, 96) THEN 2
    ELSE 0

\* The addresses whose byte the i-th call changed.
Written(i) ==
    {a \in DOMAIN Before(i).memory \cup DOMAIN After(i).memory :
        Element(Before(i).memory, a) # Element(After(i).memory, a)}

\* The byte in the stack page at stack pointer sp mod 256, before the i-th
\* call.
StackByte(i, sp) == Element(Before(i).memory, 256 + (sp % 256))

\* C16: from every SP in 0..255, through every sequence of push, pull, PHA,
\* PLA, PHP, PLP, JSR and RTS, SP stays in 0..255 and only the stack page is
\* touched: a push writes at 0x0100 + SP and then decrements SP mod 256, a
\* pull increments SP mod 256 and then reads at 0x0100 + SP.
C16_StackInPage ==
    \A i \in Calls :
        (Pushes(i) + Pulls(i) > 0 /\ Before(i).SP \in Bytes) =>
            LET sp == Before(i).SP
            IN  /\ After(i).SP = (sp - Pushes(i) + Pulls(i)) % 256
                /\ Written(i) \subseteq {256 + ((sp - k) % 256) : k \in 0 .. Pushes(i) - 1}
                /\ Written(i) \subseteq 256 .. 511
                /\ trace[i].call = "push" =>
                       Element(After(i).memory, 256 + sp) = trace[i].value % 256
                /\ Fetched(i, 72) => Element(After(i).memory, 256 + sp) = Before(i).A
                /\ Fetched(i, 32) =>
                       /\ Element(After(i).memory, 256 + sp)
                              = ((Before(i).PC + 2) \div 256) % 256
                       /\ Element(After(i).memory, 256 + ((sp - 1) % 256))
                              = (Before(i).PC + 2) % 256
                /\ trace[i].call = "pull" => trace[i].value = StackByte(i, sp + 1)
                /\ Fetched(i, 104) => After(i).A = StackByte(i, sp + 1)
                /\ Fetched(i, 96) =>
                       After(i).PC = (StackByte(i, sp + 1) + 256 * StackByte(i, sp + 2) + 1)
                                         % 65536

\* A push at SP = 0x00 that wrote 0x0100 and left SP = 0xFF, and then a pull
\* that left SP = 0x00 and returned the byte at 0x0100.
C16_Witness ==
    \E i \in Calls :
        /\ trace[i].call = "push"
        /\ Before(i).SP = 0
        /\ After(i).SP = 255
        /\ Written(i) = {256}
        /\ i + 1 \in Calls
        /\ trace[i + 1].call = "pull"
        /\ trace[i + 1].value = trace[i].value % 256
        /\ After(i + 1).SP = 0

(***************************************************************************)
(* Memory access from outside: the driver calls read and write of a new    *)
(* Bus and of a new CPU with addresses inside 0..0xFFFF, above it and      *)
(* below it, and with values inside and outside 0..255.                    *)
(***************************************************************************)
MaxCallsMemory == 3

\* Bus.read: this.ram[addr & 0xffff]
busRead(r, addr) == Element(r, And(addr, 65535))

\* Bus.write without the mask on the address: this.ram[addr] = value & 0xff
busWriteUnmasked(r, addr, value) == StoreElement(r, addr, And(value, 255))

\* Bus.write: this.ram[addr & 0xffff] = value & 0xff
busWrite(r, addr, value) == StoreElement(r, And(addr, 65535), And(value, 255))

\* bus.write(addr, value)
BusWrite(addr, value) ==
    /\ Len(trace) < MaxCallsMemory
    /\ ram' = busWrite(ram, addr, value)
    /\ trace' = Append(trace, [call |-> "bus.write", pre |-> cpu, ram |-> ram,
                               addr |-> addr, value |-> value])
    /\ UNCHANGED <<A, X, Y, SP, PC, SR, memory, thrown, phase, budget>>

\* bus.read(addr); the trace keeps the value returned.
BusRead(addr) ==
    /\ Len(trace) < MaxCallsMemory
    /\ trace' = Append(trace, [call |-> "bus.read", pre |-> cpu, ram |-> ram,
                               addr |-> addr, value |-> busRead(ram, addr)])
    /\ UNCHANGED <<A, X, Y, SP, PC, SR, memory, thrown, phase, budget, ram>>

\* cpu.write(addr, value)
Write(addr, value) ==
    /\ Len(trace) < MaxCallsMemory
    /\ Becomes(write([cpu EXCEPT !.thrown = NoError], addr, value))
    /\ trace' = Append(trace, [call |-> "cpu.write", pre |-> cpu, ram |-> ram,
                               addr |-> addr, value |-> value])
    /\ UNCHANGED <<phase, budget, ram>>

\* cpu.read(addr); the trace keeps the value returned.
Read(addr) ==
    /\ Len(trace) < MaxCallsMemory
    /\ trace' = Append(trace, [call |-> "cpu.read", pre |-> cpu, ram |-> ram,
                               addr |-> addr, value |-> read(cpu, addr)])
    /\ UNCHANGED <<A, X, Y, SP, PC, SR, memory, thrown, phase, budget, ram>>

\* Addresses 0x0000, 0xFFFF, 0x10000 and -1; values 0x42, 0x1A5 and -1.
NextMemory ==
    \E addr \in {0, 65535, 65536, -1} :
        \/ BusRead(addr)
        \/ Read(addr)
        \/ \E value \in {66, 421, -1} : BusWrite(addr, value) \/ Write(addr, value)

SpecMemory == Init /\ [][NextMemory]_vars

\* The ram of the Bus after the i-th call.
RamAfter(i) == IF i = Len(trace) THEN ram ELSE trace[i + 1].ram

\* Memory image m2 is m1 with `byte` at `index` and every other byte as it
\* was; both hold bytes at the indices 0..0xFFFF and nothing elsewhere.
StoredAt(m1, m2, index, byte) ==
    /\ DOMAIN m2 \subseteq Addresses
    /\ \A a \in DOMAIN m1 \cup DOMAIN m2 \cup {index} :
          Element(m2, a) = IF a = index THEN byte ELSE Element(m1, a)

\* C17: Bus.write(a, v) stores v mod 256 at index a mod 65536 and changes no
\* other byte; Bus.read(a) returns the byte at index a mod 65536 and changes
\* nothing, for every integer a and v.
C17_BusContract ==
    \A i \in Calls :
        /\ trace[i].call = "bus.write" =>
              StoredAt(trace[i].ram, RamAfter(i), trace[i].addr % 65536, trace[i].value % 256)
        /\ trace[i].call = "bus.read" =>
              /\ trace[i].value = Element(trace[i].ram, trace[i].addr % 65536)
              /\ trace[i].value \in Bytes
              /\ RamAfter(i) = trace[i].ram

\* bus.write(0xFFFF, 0x42), then bus.write(-1, 0x1A5) over it, then
\* bus.read(0xFFFF) returning 0xA5.
C17_Witness ==
    /\ Len(trace) = 3
    /\ trace[1].call = "bus.write" /\ trace[1].addr = 65535 /\ trace[1].value = 66
    /\ trace[2].call = "bus.write" /\ trace[2].addr = -1 /\ trace[2].value = 421
    /\ trace[3].call = "bus.read" /\ trace[3].addr = 65535 /\ trace[3].value = 165

\* C18: the core's read(a) returns the byte at a mod 65536 and its
\* write(a, v) stores v mod 256 at a mod 65536, as the Bus does, for every
\* address, 0x10000 and above included.
C18_CoreReadWriteWrap ==
    \A i \in Calls :
        /\ trace[i].call = "cpu.write" =>
              StoredAt(Before(i).memory, After(i).memory,
                       trace[i].addr % 65536, trace[i].value % 256)
        /\ trace[i].call = "cpu.read" =>
              trace[i].value = Element(Before(i).memory, trace[i].addr % 65536)

(***************************************************************************)
(* Indexed addressing, under the program specification Spec: the           *)
(* Absolute,X, Absolute,Y and (zp),Y forms with base + index inside the    *)
(* address space and past 0xFFFF.                                          *)
(***************************************************************************)
\* What the instruction of an indexed opcode does to the fields c (PC
\* already past the instruction) when its operand is the byte at addr.
WithOperandAt(c, opcode, addr) ==
    CASE opcode \in {\h7D, \h79, \h71, \h75, \h61} -> adc(c, read(c, addr))
      [] opcode \in {\h3D, \h39, \h31, \h35, \h21} -> and(c, read(c, addr))
      [] opcode \in {\h1E, \h16} -> aslMemory(c, addr)
      [] opcode \in {\hDD, \hD9, \hD1, \hD5, \hC1} -> cmp(c, read(c, addr))
      [] opcode \in {\hDE, \hD6} -> decMemory(c, addr)
      [] opcode \in {\h5D, \h59, \h51, \h55, \h41} -> eor(c, read(c, addr))
      [] opcode \in {\hFE, \hF6} -> incMemory(c, addr)
      [] opcode \in {\hBD, \hB9, \hB1, \hB5, \hA1} -> lda(c, read(c, addr))
      [] opcode \in {\hBE, \hB6} -> ldx(c, read(c, addr))
      [] opcode \in {\hBC, \hB4} -> ldy(c, read(c, addr))
      [] opcode \in {\h5E, \h56} -> lsrMemory(c, addr)
      [] opcode \in {\h1D, \h19, \h11, \h15, \h01} -> ora(c, read(c, addr))
      [] opcode \in {\h3E, \h36} -> rolMemory(c, addr)
      [] opcode \in {\h7E, \h76} -> rorMemory(c, addr)
      [] opcode \in {\hFD, \hF9, \hF1, \hF5, \hE1} -> sbc(c, read(c, addr))
      [] opcode \in {\h9D, \h99, \h91, \h95, \h81} -> write(c, addr, c.A)
      [] opcode = \h96 -> write(c, addr, c.X)
      [] opcode = \h94 -> write(c, addr, c.Y)

\* The fields before the i-th call with PC moved past an instruction of n
\* bytes and no failure pending.
PastInstruction(i, n) == [Before(i) EXCEPT !.PC = @ + n, !.thrown = NoError]

\* The i-th call was a step() on an opcode of `opcodes`, all of whose bytes
\* are in memory, with index registers holding bytes.
FetchedIndexed(i, opcodes, n) ==
    /\ WasStep(i)
    /\ Opcode(i) \in opcodes
    /\ Before(i).PC + n - 1 \in Addresses
    /\ Before(i).X \in Bytes
    /\ Before(i).Y \in Bytes

\* C19: every Absolute,X and Absolute,Y instruction reads or writes the byte
\* at (absolute word + index register) mod 65536.
C19_AbsoluteIndexedWraps ==
    \A i \in Calls :
        FetchedIndexed(i, AbsoluteXOpcodes \cup AbsoluteYOpcodes, 3) =>
            LET index == IF Opcode(i) \in AbsoluteXOpcodes THEN Before(i).X ELSE Before(i).Y
            IN  After(i) = WithOperandAt(PastInstruction(i, 3), Opcode(i),
                                         (OperandWord(i) + index) % 65536)

\* C20: every (zp),Y instruction reads or writes the byte at (w + Y) mod
\* 65536, w the little-endian word at zero-page zp and (zp + 1) mod 256.
C20_IndirectIndexedWraps ==
    \A i \in Calls :
        FetchedIndexed(i, IndirectYOpcodes, 2) =>
            LET zp == Element(Before(i).memory, Before(i).PC + 1)
                w == Element(Before(i).memory, zp)
                         + 256 * Element(Before(i).memory, (zp + 1) % 256)
            IN  After(i) = WithOperandAt(PastInstruction(i, 2), Opcode(i),
                                         (w + Before(i).Y) % 65536)

(***************************************************************************)
(* Zero-page indexing: the Zero Page,X, Zero Page,Y and (zp,X) opcodes at  *)
(* 0x8000, with operand bytes and index registers whose sum stays in the   *)
(* zero page or passes 0xFF, over distinct bytes in the zero page, in      *)
(* page 1 and where the zero-page pointers point.                          *)
(***************************************************************************)
MaxStepsZeroPage == 1

\* The opcodes of the Zero Page,X, the Zero Page,Y and the (zp,X) forms.
ZeroPageXOpcodes ==
    {\h75, \h35, \h16, \hD5, \hD6, \h55, \hF6, \hB5, \hB4, \h56, \h15, \h36, \h76, \hF5, \h95, \h94}

ZeroPageYOpcodes == {\hB6, \h96}

IndirectXOpcodes == {\h61, \h21, \hC1, \h41, \hA1, \h01, \hE1, \h81}

\* opcode b at 0x8000; bytes (and pointers) at 0x00, 0x01, 0x0F..0x11,
\* 0xFE, 0xFF; other bytes in page 1 at 0x100, 0x10F, 0x1FE; bytes at
\* 0x6010, 0x6120, 0x2030, 0x1040 (where the pointers point) and at 0x7010.
ZeroPageImage(opcode, b) ==
    SetBytes(SetBytes(SetBytes(SetBytes(SetBytes(SetBytes(SetBytes(SetBytes(SetBytes(SetBytes(
        Program(32768, <<opcode, b>>),
        0, <<96, 98>>), 15, <<48, 32, 97>>), 254, <<64, 16, 112>>), 271, <<119>>),
        510, <<153>>), 24592, <<129>>), 24864, <<51>>), 8240, <<195>>), 4160, <<15>>),
        28688, <<126>>)

ZeroPagePokes ==
    {Registers(a, i, i, 253, sr) : a \in {0, 90, 255}, i \in {0, 1, 255}, sr \in {36, 37}}

NextZeroPage ==
    \/ Load({ZeroPageImage(opcode, b) :
                opcode \in ZeroPageXOpcodes \cup ZeroPageYOpcodes \cup IndirectXOpcodes,
                b \in {16, 255, 0}}, MaxStepsZeroPage)
    \/ Reset
    \/ Poke(ZeroPagePokes)
    \/ Step

SpecZeroPage == Init /\ [][NextZeroPage]_vars

\* C21: every Zero Page,X and Zero Page,Y instruction, with operand byte b
\* and index i, reads or writes the byte at (b + i) mod 256, an address of
\* the zero page; nothing in page 1 is read or written.
C21_ZeroPageIndexedWraps ==
    \A i \in Calls :
        FetchedIndexed(i, ZeroPageXOpcodes \cup ZeroPageYOpcodes, 2) =>
            LET b == Element(Before(i).memory, Before(i).PC + 1)
                index == IF Opcode(i) \in ZeroPageXOpcodes THEN Before(i).X ELSE Before(i).Y
                addr == (b + index) % 256
            IN  /\ addr \in 0 .. 255
                /\ After(i) = WithOperandAt(PastInstruction(i, 2), Opcode(i), addr)
                /\ \A a \in 256 .. 511 :
                       Element(After(i).memory, a) = Element(Before(i).memory, a)

\* LDA $FF,X with X = 1 loaded the byte at 0x0000, not the one at 0x0100.
C21_Witness ==
    \E i \in Calls :
        /\ FetchedIndexed(i, {181}, 2)
        /\ Element(Before(i).memory, Before(i).PC + 1) = 255
        /\ Before(i).X = 1
        /\ After(i).A = Element(Before(i).memory, 0)
        /\ After(i).A # Element(Before(i).memory, 256)

\* C22: every (zp,X) instruction with operand byte b reads or writes the
\* byte at the little-endian word whose low byte is at z = (b + X) mod 256
\* and whose high byte is at (z + 1) mod 256.
C22_IndexedIndirectPointer ==
    \A i \in Calls :
        FetchedIndexed(i, IndirectXOpcodes, 2) =>
            LET b == Element(Before(i).memory, Before(i).PC + 1)
                z == (b + Before(i).X) % 256
                addr == Element(Before(i).memory, z)
                            + 256 * Element(Before(i).memory, (z + 1) % 256)
            IN  After(i) = WithOperandAt(PastInstruction(i, 2), Opcode(i), addr)

\* LDA ($FF,X) with X = 0: the pointer's high byte came from 0x0000, and the
\* byte loaded is not the one the high byte at 0x0100 would have given.
C22_Witness ==
    \E i \in Calls :
        /\ FetchedIndexed(i, {161}, 2)
        /\ (Element(Before(i).memory, Before(i).PC + 1) + Before(i).X) % 256 = 255
        /\ After(i).A = Element(Before(i).memory,
                                Element(Before(i).memory, 255)
                                    + 256 * Element(Before(i).memory, 0))
        /\ After(i).A # Element(Before(i).memory,
                                Element(Before(i).memory, 255)
                                    + 256 * Element(Before(i).memory, 256))

(***************************************************************************)
(* Construction, under the program specification Spec: the object as       *)
(* new CPU() leaves it, before the driver writes memory or calls reset().  *)
(***************************************************************************)
\* C23: a newly constructed core, before any reset(), has A, X, Y, SP and PC
\* all 0, flag byte 0x24, and every one of the 65,536 memory bytes equal to 0.
C23_NewCoreZeroed ==
    phase = "new" =>
        /\ A = 0 /\ X = 0 /\ Y = 0 /\ SP = 0 /\ PC = 0
        /\ SR = 36
        /\ \A a \in Addresses : Element(memory, a) = 0

(***************************************************************************)
(* Subtraction and comparison: SBC #M, CMP #M, CPX #M and CPY #M at        *)
(* 0x8000 for every operand, from every value of A, X and Y with Carry     *)
(* clear and set, and from edge values with other flag bytes.              *)
(***************************************************************************)
MaxStepsCompare == 1

ComparePokes ==
    {Registers(r, (r + 85) % 256, (r + 170) % 256, 253, sr) : r \in Bytes, sr \in {36, 37}}
        \cup {Registers(r, (r + 85) % 256, (r + 170) % 256, 253, sr) :
                 r \in EdgeBytes, sr \in {0, 108, 255}}

NextCompare ==
    \/ Load({Program(32768, <<opcode, m>>) :
                opcode \in {\hE9, \hC9, \hE0, \hC0}, m \in Bytes}, MaxStepsCompare)
    \/ Reset
    \/ Poke(ComparePokes)
    \/ Step

SpecCompare == Init /\ [][NextCompare]_vars

\* The i-th call executed the immediate instruction `opcode` on an operand
\* byte.
FetchedImmediate(i, opcode) ==
    /\ Fetched(i, opcode)
    /\ Immediate(i) \in Bytes

\* The bits of the flag byte sr outside `mask`.
FlagsOutside(sr, mask) == {n \in 0 .. 7 : Bit(mask, n) = 0 /\ Bit(sr, n) = 1}

\* C24: for all A, M in 0..255 and carry-in c, SBC with operand M leaves the
\* same A, Carry, Overflow, Zero and Negative as ADC with operand M xor 0xFF
\* from the same state; with Carry set beforehand A becomes (A - M) mod 256
\* and Carry ends set iff A >= M.
C24_SbcIsAdcOfComplement ==
    \A i \in Calls :
        (FetchedImmediate(i, 233) /\ Before(i).A \in Bytes) =>
            LET a == Before(i).A
                m == Immediate(i)
                viaAdc == adc(PastInstruction(i, 2), 255 - m)
            IN  /\ After(i).A = viaAdc.A
                /\ \A n \in {0, 1, 6, 7} : Bit(After(i).SR, n) = Bit(viaAdc.SR, n)
                /\ Bit(Before(i).SR, 0) = 1 =>
                      /\ After(i).A = (a - m) % 256
                      /\ Bit(After(i).SR, 0) = (IF a >= m THEN 1 ELSE 0)

\* An SBC with Carry set that borrowed: A < M, the difference wrapped and
\* Carry ended clear.
C24_Witness ==
    \E i \in Calls :
        /\ FetchedImmediate(i, 233)
        /\ Bit(Before(i).SR, 0) = 1
        /\ Before(i).A = 16 /\ Immediate(i) = 32
        /\ After(i).A = 240
        /\ Bit(After(i).SR, 0) = 0

\* C25: for CMP, CPX and CPY with register value r and operand m, for all
\* r, m in 0..255: Carry is set iff r >= m, Zero iff r = m, Negative is
\* bit 7 of (r - m) mod 256, and the registers, the other flag bits and
\* memory are unchanged.
C25_Compare ==
    \A i \in Calls :
        \A opcode \in {\hC9, \hE0, \hC0} :
            FetchedImmediate(i, opcode) =>
                LET r == CASE opcode = \hC9 -> Before(i).A
                           [] opcode = \hE0 -> Before(i).X
                           [] opcode = \hC0 -> Before(i).Y
                    m == Immediate(i)
                    sr == After(i).SR
                IN  r \in Bytes =>
                      /\ Bit(sr, 0) = (IF r >= m THEN 1 ELSE 0)
                      /\ Bit(sr, 1) = (IF r = m THEN 1 ELSE 0)
                      /\ Bit(sr, 7) = Bit((r - m) % 256, 7)
                      /\ FlagsOutside(sr, 131) = FlagsOutside(Before(i).SR, 131)
                      /\ After(i).A = Before(i).A
                      /\ After(i).X = Before(i).X
                      /\ After(i).Y = Before(i).Y
                      /\ After(i).SP = Before(i).SP
                      /\ After(i).memory = Before(i).memory

\* A CPX of equal bytes from a flag byte with V, D, I and bit 5 set and
\* C, Z, N clear: Carry and Zero became set, the rest stayed.
C25_Witness ==
    \E i \in Calls :
        /\ FetchedImmediate(i, 224)
        /\ Before(i).X = Immediate(i)
        /\ Before(i).X # Before(i).A
        /\ Before(i).SR = 108
        /\ After(i).SR = 111

(***************************************************************************)
(* BIT: BIT $10 and BIT $6010 at 0x8000 over every memory byte, from every *)
(* accumulator, and from edge accumulators with other flag bytes.          *)
(***************************************************************************)
MaxStepsBit == 1

BitPokes ==
    {Registers(a, 0, 0, 253, 36) : a \in Bytes}
        \cup {Registers(a, 1, 2, 253, sr) : a \in EdgeBytes, sr \in {0, 61, 194, 255}}

NextBit ==
    \/ Load({SetBytes(Program(32768, <<\h24, 16>>), 16, <<m>>) : m \in Bytes}
              \cup {SetBytes(Program(32768, <<\h2C, 16, 96>>), 24592, <<m>>) : m \in Bytes},
            MaxStepsBit)
    \/ Reset
    \/ Poke(BitPokes)
    \/ Step

SpecBit == Init /\ [][NextBit]_vars

\* The i-th call executed BIT on a memory byte, with A holding a byte.
FetchedBit(i) ==
    /\ WasStep(i)
    /\ Opcode(i) \in {\h24, \h2C}
    /\ Before(i).A \in Bytes

\* The memory byte the BIT of the i-th call tests.
BitOperand(i) ==
    Element(Before(i).memory,
            IF Opcode(i) = \h24 THEN Element(Before(i).memory, Before(i).PC + 1)
            ELSE OperandWord(i))

\* C26: for BIT (zero page and absolute) with accumulator A and memory byte
\* M, for all A, M in 0..255: A is unchanged, Zero is set iff (A and M) = 0,
\* Negative is bit 7 of M and Overflow bit 6 of M whatever A is, and Carry,
\* Decimal, Interrupt-Disable and bits 4 and 5 are unchanged.
C26_Bit ==
    \A i \in Calls :
        FetchedBit(i) =>
            LET a == Before(i).A
                m == BitOperand(i)
                sr == After(i).SR
            IN  /\ After(i).A = a
                /\ Bit(sr, 1) = (IF \A n \in 0 .. 7 : Bit(a, n) = 0 \/ Bit(m, n) = 0
                                 THEN 1 ELSE 0)
                /\ Bit(sr, 7) = Bit(m, 7)
                /\ Bit(sr, 6) = Bit(m, 6)
                /\ FlagsOutside(sr, 194) = FlagsOutside(Before(i).SR, 194)

\* A BIT whose accumulator shares no bit with a memory byte that has bits 6
\* and 7 set: Zero, Overflow and Negative all became set, from all clear.
C26_Witness ==
    \E i \in Calls :
        /\ FetchedBit(i)
        /\ Before(i).A = 5
        /\ BitOperand(i) = 192
        /\ Before(i).SR = 61
        /\ After(i).SR = 255

(***************************************************************************)
(* Shifts and rotates: ASL, LSR, ROL and ROR on the accumulator (after     *)
(* LDA #v) and on a memory byte in each addressing mode, for every value   *)
(* v, with Carry clear and set.                                            *)
(***************************************************************************)
MaxStepsShift == 2

\* ASL, LSR, ROL, ROR: accumulator; zero page, zero page,X, absolute and
\* absolute,X.
ShiftAccumulatorOpcodes == {\h0A, \h4A, \h2A, \h6A}

ShiftMemoryOpcodes ==
    {\h06, \h16, \h0E, \h1E, \h46, \h56, \h4E, \h5E,
     \h26, \h36, \h2E, \h3E, \h66, \h76, \h6E, \h7E}

\* opcode $10 / $6010 at 0x8000 (the zero-page forms take 0x10 alone), and v
\* in each byte an index of 0, 1 or 0xFF reaches from there.
ShiftMemoryImage(opcode, v) ==
    SetBytes(SetBytes(SetBytes(SetBytes(Program(32768, <<opcode, 16, 96>>),
                                        15, <<v, v, v>>), 24592, <<v, v>>),
                      24847, <<v>>), 271, <<v>>)

ShiftPokes ==
    {Registers(a, x, 2, 253, sr) : a \in {0, 90}, x \in {0, 1, 255}, sr \in {36, 37, 238, 239}}

NextShift ==
    \/ Load({Program(32768, <<169, v, opcode>>) :
                opcode \in ShiftAccumulatorOpcodes, v \in Bytes}
              \cup {ShiftMemoryImage(opcode, v) : opcode \in ShiftMemoryOpcodes, v \in Bytes},
            MaxStepsShift)
    \/ Reset
    \/ Poke(ShiftPokes)
    \/ Step

SpecShift == Init /\ [][NextShift]_vars

\* Where the shift of the i-th call reads and writes: the accumulator, or
\* the memory byte its addressing mode names.
ShiftLocation(i) ==
    LET c == Before(i)
        opcode == Opcode(i)
        zp == Element(c.memory, c.PC + 1)
    IN  CASE opcode \in ShiftAccumulatorOpcodes -> [kind |-> "A", addr |-> 0]
          [] opcode \in {\h06, \h46, \h26, \h66} -> [kind |-> "memory", addr |-> zp]
          [] opcode \in {\h16, \h56, \h36, \h76} ->
               [kind |-> "memory", addr |-> (zp + c.X) % 256]
          [] opcode \in {\h0E, \h4E, \h2E, \h6E} ->
               [kind |-> "memory", addr |-> OperandWord(i)]
          [] opcode \in {\h1E, \h5E, \h3E, \h7E} ->
               [kind |-> "memory", addr |-> OperandWord(i) + c.X]

\* The value at the shift's location in the fields c.
ShiftHeld(c, location) ==
    IF location.kind = "A" THEN c.A ELSE Element(c.memory, location.addr)

\* The i-th call executed a shift or rotate of a location inside the address
\* space that held a byte.
FetchedShift(i) ==
    /\ WasStep(i)
    /\ Opcode(i) \in ShiftAccumulatorOpcodes \cup ShiftMemoryOpcodes
    /\ Before(i).X \in Bytes
    /\ ShiftLocation(i).addr \in Addresses
    /\ ShiftHeld(Before(i), ShiftLocation(i)) \in Bytes

\* C27: for every value v in 0..255 and previous Carry c, on the accumulator
\* or a memory byte: ASL yields (2v) mod 256 and ROL (2v + c) mod 256, both
\* with new Carry = bit 7 of v; LSR yields floor(v/2) and ROR
\* floor(v/2) + 128c, both with new Carry = bit 0 of v; Zero and Negative are
\* set from the result, and the result is written back where v was read.
C27_ShiftsAndRotates ==
    \A i \in Calls :
        FetchedShift(i) =>
            LET opcode == Opcode(i)
                location == ShiftLocation(i)
                v == ShiftHeld(Before(i), location)
                c == Bit(Before(i).SR, 0)
                left == opcode \in {\h0A, \h06, \h16, \h0E, \h1E, \h2A, \h26, \h36, \h2E, \h3E}
                rotate == opcode \in {\h2A, \h26, \h36, \h2E, \h3E, \h6A, \h66, \h76, \h6E, \h7E}
                fed == IF rotate THEN c ELSE 0
                result == IF left THEN (2 * v + fed) % 256 ELSE (v \div 2) + 128 * fed
                sr == After(i).SR
            IN  /\ ShiftHeld(After(i), location) = result
                /\ Bit(sr, 0) = (IF left THEN Bit(v, 7) ELSE Bit(v, 0))
                /\ Bit(sr, 1) = (IF result = 0 THEN 1 ELSE 0)
                /\ Bit(sr, 7) = Bit(result, 7)
                /\ IF location.kind = "A"
                   THEN After(i).memory = Before(i).memory
                   ELSE /\ After(i).A = Before(i).A
                        /\ After(i).memory =
                               StoreElement(Before(i).memory, location.addr, result)

\* A ROR $10,X with X = 1 and Carry set, of an odd byte at 0x0011: the byte
\* there became floor(v/2) + 128 and Carry stayed set.
C27_Witness ==
    \E i \in Calls :
        /\ FetchedShift(i)
        /\ Opcode(i) = \h76
        /\ ShiftLocation(i).addr = 17
        /\ Element(Before(i).memory, 17) = 3
        /\ Bit(Before(i).SR, 0) = 1
        /\ Element(After(i).memory, 17) = 129
        /\ Bit(After(i).SR, 0) = 1
        /\ Element(After(i).memory, 16) = 3

(***************************************************************************)
(* Flag instructions and BRK, under the program specification Spec: each   *)
(* opcode after reset() and after a PLP that loaded the flag byte.         *)
(***************************************************************************)
\* The flag bit SEC, SED, SEI set and CLC, CLD, CLI, CLV clear.
FlagOf(opcode) ==
    CASE opcode \in {\h38, \h18} -> 0
      [] opcode \in {\hF8, \hD8} -> 3
      [] opcode \in {\h78, \h58} -> 2
      [] opcode = \hB8 -> 6

\* C28: each of SEC, CLC, SED, CLD, SEI, CLI, CLV sets or clears exactly its
\* one flag bit (Carry 0x01, Decimal 0x08, Interrupt-Disable 0x04, Overflow
\* 0x40) and leaves every other flag bit, A, X, Y, SP and memory unchanged.
C28_FlagInstructions ==
    \A i \in Calls :
        (WasStep(i) /\ Opcode(i) \in {\h38, \h18, \hF8, \hD8, \h78, \h58, \hB8}) =>
            /\ FlagsOutside(After(i).SR, 0) =
                   (IF Opcode(i) \in {\h38, \hF8, \h78}
                    THEN FlagsOutside(Before(i).SR, 0) \cup {FlagOf(Opcode(i))}
                    ELSE FlagsOutside(Before(i).SR, 0) \ {FlagOf(Opcode(i))})
            /\ After(i).SR \in Bytes
            /\ After(i).A = Before(i).A
            /\ After(i).X = Before(i).X
            /\ After(i).Y = Before(i).Y
            /\ After(i).SP = Before(i).SP
            /\ After(i).memory = Before(i).memory

\* A CLV from the flag byte 0xE3: Overflow went, C, Z, N and bit 5 stayed.
C28_Witness ==
    \E i \in Calls :
        /\ WasStep(i)
        /\ Opcode(i) = \hB8
        /\ Before(i).SR = 227
        /\ After(i).SR = 163

\* C29: BRK (0x00) sets Break (bit 4) and Interrupt-Disable (bit 2), sets PC
\* to the little-endian word at 0xFFFE/0xFFFF and pushes nothing: SP, A, X,
\* Y, the other flag bits and memory are unchanged.
C29_Brk ==
    \A i \in Calls :
        (WasStep(i) /\ Opcode(i) = 0) =>
            /\ FlagsOutside(After(i).SR, 0) = FlagsOutside(Before(i).SR, 0) \cup {2, 4}
            /\ After(i).SR \in Bytes
            /\ After(i).PC = Element(Before(i).memory, 65534)
                                 + 256 * Element(Before(i).memory, 65535)
            /\ After(i).SP = Before(i).SP
            /\ After(i).A = Before(i).A
            /\ After(i).X = Before(i).X
            /\ After(i).Y = Before(i).Y
            /\ After(i).memory = Before(i).memory
            /\ After(i).thrown = NoError

\* A BRK from the flag byte 0x20 with the vector holding 0x0100: Break and
\* Interrupt-Disable became set and PC is 0x0100, SP as it was.
C29_Witness ==
    \E i \in Calls :
        /\ WasStep(i)
        /\ Opcode(i) = 0
        /\ Before(i).SR = 32
        /\ After(i).SR = 52
        /\ After(i).PC = 256
        /\ After(i).SP = Before(i).SP

(***************************************************************************)
(* JSR alone, under the jump specification SpecJump: the bytes it pushes,  *)
(* from every stack pointer.                                               *)
(***************************************************************************)
\* C30: JSR at address p with operand word t and stack pointer s pushes the
\* high byte of p + 2 at 0x0100 + s, then the low byte of p + 2 at
\* 0x0100 + ((s - 1) mod 256), leaves SP = (s - 2) mod 256 and PC = t;
\* flags and A, X, Y are unchanged.
C30_JsrPushesReturnAddress ==
    \A i \in Calls :
        (Fetched(i, 32) /\ Before(i).SP \in Bytes) =>
            LET s == Before(i).SP
                return == (Before(i).PC + 2) % 65536
                high == StoreElement(Before(i).memory, 256 + s, return \div 256)
            IN  /\ After(i).memory =
                       StoreElement(high, 256 + ((s - 1) % 256), return % 256)
                /\ After(i).SP = (s - 2) % 256
                /\ After(i).PC = OperandWord(i)
                /\ After(i).SR = Before(i).SR
                /\ After(i).A = Before(i).A
                /\ After(i).X = Before(i).X
                /\ After(i).Y = Before(i).Y

(***************************************************************************)
(* RTS alone, under the jump specification SpecJump: the bytes it pulls,   *)
(* from every stack pointer.                                               *)
(***************************************************************************)
\* C31: RTS with stack pointer s pulls the low byte from
\* 0x0100 + ((s + 1) mod 256), then the high byte from
\* 0x0100 + ((s + 2) mod 256), sets PC = (high * 256 + low + 1) mod 65536 and
\* leaves SP = (s + 2) mod 256, memory unchanged.
C31_RtsPullsReturnAddress ==
    \A i \in Calls :
        (Fetched(i, 96) /\ Before(i).SP \in Bytes) =>
            LET s == Before(i).SP
                low == Element(Before(i).memory, 256 + ((s + 1) % 256))
                high == Element(Before(i).memory, 256 + ((s + 2) % 256))
            IN  /\ After(i).PC = (high * 256 + low + 1) % 65536
                /\ After(i).SP = (s + 2) % 256
                /\ After(i).memory = Before(i).memory
                /\ After(i).thrown = NoError

\* An RTS that pulled the word 0xFFFF, its low byte from 0x01FF and its high
\* byte from 0x0100, and went to 0x0000 with SP = 0.
C31_Witness ==
    \E i \in Calls :
        /\ Fetched(i, 96)
        /\ Before(i).SP = 254
        /\ Element(Before(i).memory, 511) = 255
        /\ Element(Before(i).memory, 256) = 255
        /\ After(i).PC = 0
        /\ After(i).SP = 0

(***************************************************************************)
(* Bytes through the stack: PHA; PLP; PHP and PHP; PLP, PHA; PLA with and  *)
(* without an instruction between them, and push() and pull() called on a  *)
(* core with no program, for every byte at the ends of the stack page and  *)
(* from every stack pointer.                                               *)
(***************************************************************************)
MaxCallsStackBytes == 3

\* cpu.A, cpu.SP and cpu.SR written: every byte in A at the ends of the
\* stack page, every stack pointer, every flag byte.
StackBytesPokes ==
    {Registers(a, 0, 0, sp, sr) : a \in Bytes, sp \in {253, 0, 255}, sr \in {36, 203}}
        \cup {Registers(a, 0, 0, sp, 36) : a \in {0, 128, 90}, sp \in Bytes}
        \cup {Registers(0, 0, 0, 253, sr) : sr \in Bytes}

NextStackBytes ==
    \/ Load({Program(32768, <<72, 40, 8>>), Program(32768, <<8, 40>>),
             Program(32768, <<72, 169, 0, 104>>), Program(32768, <<72, 104>>),
             Program(32768, <<>>)}, MaxCallsStackBytes)
    \/ Reset
    \/ Poke(StackBytesPokes)
    \/ Step
    \/ (Element(memory, 32768) = 0 /\ Push({A, 255 - A}))
    \/ (Element(memory, 32768) = 0 /\ Pull)

SpecStackBytes == Init /\ [][NextStackBytes]_vars

\* The elements of FlagsOutside(sr, 0): the bits set in the byte sr.
BitsSet(sr) == FlagsOutside(sr, 0)

\* C32: PHP pushes (flags or 0x30) and leaves the flag register unchanged;
\* PLP sets the flag register to (pulled byte and 0xEF) or 0x20, for every
\* pulled byte in 0..255.
C32_PhpPlpBytes ==
    \A i \in Calls :
        /\ (Fetched(i, 8) /\ Before(i).SR \in Bytes /\ Before(i).SP \in Bytes) =>
              /\ Element(After(i).memory, 256 + Before(i).SP) \in Bytes
              /\ BitsSet(Element(After(i).memory, 256 + Before(i).SP))
                     = BitsSet(Before(i).SR) \cup {4, 5}
              /\ After(i).SR = Before(i).SR
        /\ (Fetched(i, 40) /\ Before(i).SP \in Bytes) =>
              /\ After(i).SR \in Bytes
              /\ BitsSet(After(i).SR)
                     = (BitsSet(StackByte(i, Before(i).SP + 1)) \ {4}) \cup {5}

\* A PLP that pulled 0xDF, which PHA had pushed: the flag register became
\* 0xEF; and the PHP after it pushed 0xFF and left the flag register 0xEF.
C32_Witness ==
    \E i \in Calls :
        /\ Fetched(i, 40)
        /\ StackByte(i, Before(i).SP + 1) = 223
        /\ After(i).SR = 239
        /\ Fetched(i + 1, 8)
        /\ Element(After(i + 1).memory, 256 + Before(i + 1).SP) = 255
        /\ After(i + 1).SR = 239

\* The calls i < j are a PHA and a PLA with nothing between them that
\* touches the stack: no push or pull, no write into the stack page.
PhaToPla(i, j) ==
    /\ i \in Calls /\ j \in Calls /\ i < j
    /\ Fetched(i, 72)
    /\ Fetched(j, 104)
    /\ Before(i).A \in Bytes
    /\ Before(i).SP \in Bytes
    /\ \A k \in (i + 1) .. (j - 1) :
          /\ WasStep(k)
          /\ Pushes(k) + Pulls(k) = 0
          /\ Written(k) \cap (256 .. 511) = {}

\* C36: for every value v in 0..255 and SP in 0..255, push(v) followed by
\* pull() returns v and restores SP; PHA, then instructions that do not
\* touch the stack, then PLA restores A to the pushed value and sets Zero
\* and Negative from it.
C36_PushThenPull ==
    /\ \A i \in Calls :
          (/\ i + 1 \in Calls
           /\ trace[i].call = "push"
           /\ trace[i + 1].call = "pull"
           /\ trace[i].value \in Bytes
           /\ Before(i).SP \in Bytes) =>
              /\ trace[i + 1].value = trace[i].value
              /\ After(i + 1).SP = Before(i).SP
    /\ \A i, j \in Calls :
          PhaToPla(i, j) =>
              /\ After(j).A = Before(i).A
              /\ After(j).SP = Before(i).SP
              /\ Bit(After(j).SR, 1) = (IF Before(i).A = 0 THEN 1 ELSE 0)
              /\ Bit(After(j).SR, 7) = Bit(Before(i).A, 7)

\* PHA of 0x80 at SP = 0x00, LDA #0 (which set Zero), then PLA: A is 0x80
\* again, Negative set, Zero clear and SP back at 0x00.
C36_Witness ==
    \E i \in Calls :
        /\ PhaToPla(i, i + 2)
        /\ Before(i).A = 128
        /\ Before(i).SP = 0
        /\ After(i + 1).A = 0
        /\ Bit(After(i + 1).SR, 1) = 1
        /\ After(i + 2).A = 128
        /\ Bit(After(i + 2).SR, 1) = 0
        /\ Bit(After(i + 2).SR, 7) = 1
        /\ After(i + 2).SP = 0

(***************************************************************************)
(* ADC and SBC with the Decimal flag: ADC #m and SBC #m, each alone, for   *)
(* every operand and every accumulator with the Decimal flag set, with     *)
(* either carry, and for the bytes at the edges with it clear.             *)
(***************************************************************************)
MaxStepsDecimal == 1

\* cpu.A and cpu.SR written: the Decimal flag set, with either carry.
DecimalPokes ==
    {Registers(a, 0, 0, 253, sr) : a \in Bytes, sr \in {44, 45}}
        \cup {Registers(a, 0, 0, 253, sr) : a \in {0, 127, 128, 255},
                                            sr \in {36, 37, 230, 231, 238, 239}}

NextDecimal ==
    \/ Load({Program(32768, <<opcode, m>>) : opcode \in {105, 233}, m \in Bytes},
            MaxStepsDecimal)
    \/ Reset
    \/ Poke(DecimalPokes)
    \/ Step

SpecDecimal == Init /\ [][NextDecimal]_vars

\* The fields step() leaves when it starts from the fields before the i-th
\* call with the Decimal flag, bit 3 of SR, the other way round.
TwinAfter(i) ==
    LET sr == Before(i).SR
    IN  step([Before(i) EXCEPT !.SR = IF Bit(sr, 3) = 1 THEN sr - 8 ELSE sr + 8])

\* C37: for all A, M and carry-in, two cores that differ only in the
\* Decimal flag (bit 3) have the same A, Carry, Overflow, Zero and Negative
\* after ADC, and the same after SBC; neither changes the Decimal flag.
C37_BinaryOnly ==
    \A i \in Calls :
        ((FetchedImmediate(i, 105) \/ FetchedImmediate(i, 233))
            /\ Before(i).A \in Bytes /\ Before(i).SR \in Bytes) =>
            LET twin == TwinAfter(i)
            IN  /\ After(i).A = twin.A
                /\ After(i).A \in Bytes
                /\ FlagsOutside(After(i).SR, 8) = FlagsOutside(twin.SR, 8)
                /\ Bit(After(i).SR, 3) = Bit(Before(i).SR, 3)
                /\ Bit(twin.SR, 3) = 1 - Bit(Before(i).SR, 3)

\* ADC #$01 on A = 0x09 with the Decimal flag set and Carry clear leaves
\* the binary sum 0x0A, as it does with the flag clear.
C37_Witness ==
    \E i \in Calls :
        /\ FetchedImmediate(i, 105)
        /\ Immediate(i) = 1
        /\ Before(i).A = 9
        /\ Before(i).SR = 44
        /\ After(i).A = 10
        /\ After(i).SR = 44
        /\ TwinAfter(i).A = 10
        /\ TwinAfter(i).SR = 36

(***************************************************************************)
(* ROL and ROR one after the other, in both orders: on the accumulator,    *)
(* and on the memory byte a store of the accumulator has just written, in  *)
(* the zero page, zero page,X, absolute and absolute,X forms.              *)
(***************************************************************************)
MaxStepsRotate == 3

\* cpu.A, cpu.X and cpu.SR written: every byte, with either carry.
RotatePokes ==
    {Registers(a, x, 0, 253, sr) : a \in Bytes, x \in {0, 5}, sr \in {36, 37, 238, 239}}

NextRotate ==
    \/ Load({Program(32768, <<42, 106>>), Program(32768, <<106, 42>>),
             Program(32768, <<133, 16, 38, 16, 102, 16>>),
             Program(32768, <<133, 16, 102, 16, 38, 16>>),
             Program(32768, <<149, 255, 54, 255, 118, 255>>),
             Program(32768, <<149, 255, 118, 255, 54, 255>>),
             Program(32768, <<141, 16, 2, 46, 16, 2, 110, 16, 2>>),
             Program(32768, <<141, 16, 2, 110, 16, 2, 46, 16, 2>>),
             Program(32768, <<157, 255, 2, 62, 255, 2, 126, 255, 2>>),
             Program(32768, <<157, 255, 2, 126, 255, 2, 62, 255, 2>>)},
            MaxStepsRotate)
    \/ Reset
    \/ Poke(RotatePokes)
    \/ Step

SpecRotate == Init /\ [][NextRotate]_vars

\* The calls i and i + 1 are a ROL and a ROR, in either order, of the same
\* location.
RotatePair(i) ==
    /\ i + 1 \in Calls
    /\ FetchedShift(i)
    /\ FetchedShift(i + 1)
    /\ ShiftLocation(i) = ShiftLocation(i + 1)
    /\ \/ Opcode(i) \in {\h2A, \h26, \h36, \h2E, \h3E}
            /\ Opcode(i + 1) \in {\h6A, \h66, \h76, \h6E, \h7E}
       \/ Opcode(i) \in {\h6A, \h66, \h76, \h6E, \h7E}
            /\ Opcode(i + 1) \in {\h2A, \h26, \h36, \h2E, \h3E}

\* C40: for every value v in 0..255 and Carry c, on the accumulator or on
\* the same memory byte, ROL followed immediately by ROR, and ROR followed
\* immediately by ROL, restores both v and the Carry c.
C40_RotateRoundTrip ==
    \A i \in Calls :
        RotatePair(i) =>
            /\ ShiftHeld(After(i + 1), ShiftLocation(i)) = ShiftHeld(Before(i), ShiftLocation(i))
            /\ Bit(After(i + 1).SR, 0) = Bit(Before(i).SR, 0)

\* ROL $10 of 0x81 with Carry clear left 0x02 and Carry set; the ROR $10
\* after it left 0x81 again and Carry clear.
C40_Witness ==
    \E i \in Calls :
        /\ RotatePair(i)
        /\ Opcode(i) = 38
        /\ ShiftLocation(i) = [kind |-> "memory", addr |-> 16]
        /\ ShiftHeld(Before(i), ShiftLocation(i)) = 129
        /\ Bit(Before(i).SR, 0) = 0
        /\ ShiftHeld(After(i), ShiftLocation(i)) = 2
        /\ Bit(After(i).SR, 0) = 1
        /\ ShiftHeld(After(i + 1), ShiftLocation(i)) = 129
        /\ Bit(After(i + 1).SR, 0) = 0

(***************************************************************************)
(* The countdown loop of program.test.ts, LDX #n; DEX; BNE -3; STX $6000,  *)
(* for every n in 1..255, with a byte other than 0 at 0x6000 beforehand,   *)
(* stepped until the store has run.                                        *)
(***************************************************************************)
MaxStepsLoop == 512

LoopProgram(n) ==
    SetBytes(Program(32768, <<162, n, 202, 208, 253, 142, 0, 96>>), 24576, <<170>>)

NextLoop == Load({LoopProgram(n) : n \in 1 .. 255}, MaxStepsLoop) \/ Reset \/ Step

SpecLoop == Init /\ [][NextLoop]_vars

\* The driver loaded the loop counting from n, called reset() and then
\* step() exactly `steps` times.
RanLoop(n, steps) ==
    /\ Len(trace) = steps + 1
    /\ trace[1].call = "reset"
    /\ trace[1].pre.memory = LoopProgram(n)
    /\ \A i \in 2 .. Len(trace) : trace[i].call = "step"

\* C35: for LDX #n; DEX; BNE -3; STX $6000 at 0x8000 with n in 1..255,
\* after reset() repeated step() leaves the loop: PC = 0x8005 with X = 0
\* and Zero set after exactly 1 + 2n steps and not before, and one further
\* step stores 0 at 0x6000; for n = 3, X = 0 holds after 6 steps already.
C35_LoopTerminates ==
    Len(trace) > 0 =>
        LET n == Element(trace[1].pre.memory, 32769)
            steps == Len(trace) - 1
        IN  (n \in 1 .. 255 /\ RanLoop(n, steps)) =>
                /\ steps <= 2 * n => PC \in {32768, 32770, 32771}
                /\ steps = 2 * n => X = 0
                /\ (n = 3 /\ steps = 6) => X = 0
                /\ steps = 1 + 2 * n =>
                      /\ PC = 32773
                      /\ X = 0
                      /\ Bit(SR, 1) = 1
                      /\ Element(memory, 24576) = 170
                /\ steps = 2 + 2 * n =>
                      /\ memory = StoreElement(LoopProgram(n), 24576, 0)
                      /\ PC = 32776
                      /\ X = 0

\* The loop counting from 3, as the test runs it: X = 0 after 6 steps, out
\* of the loop after the 7th, and the 8th stored 0 over the 0xAA at 0x6000.
C35_Witness ==
    /\ RanLoop(3, 8)
    /\ Before(8).X = 0
    /\ Before(8).PC = 32771
    /\ Before(9).PC = 32773
    /\ Before(9).X = 0
    /\ Bit(Before(9).SR, 1) = 1
    /\ Element(Before(9).memory, 24576) = 170
    /\ Element(memory, 24576) = 0

(***************************************************************************)
(* Nested subroutines: k blocks of JSR next; RTS from 0x8000 on, each      *)
(* calling the one after it, and an RTS after the last, so that k JSR are  *)
(* followed by k RTS; and one call from the last bytes of memory.  From    *)
(* stack pointers at both ends of the stack page and in its middle.        *)
(***************************************************************************)
MaxStepsNested == 254

NestedImage(k) ==
    Program(32768,
            [m \in 1 .. (4 * k + 1) |->
                LET next == 32768 + 4 * (((m - 1) \div 4) + 1)
                IN  CASE m = 4 * k + 1 -> 96
                      [] (m - 1) % 4 = 0 -> 32
                      [] (m - 1) % 4 = 1 -> next % 256
                      [] (m - 1) % 4 = 2 -> next \div 256
                      [] OTHER -> 96])

\* cpu.SP written.
NestedPokes == {Registers(0, 0, 0, sp, 36) : sp \in {0, 1, 2, 127, 253, 254, 255}}

NextNested ==
    \/ Load({NestedImage(k) : k \in {1, 2, 127}}
              \cup {JsrImageFFFD(36864), JsrImageAcrossTop(65535, 96)},
            MaxStepsNested)
    \/ Reset
    \/ Poke(NestedPokes)
    \/ Step

SpecNested == Init /\ [][NextNested]_vars

\* The calls i .. i + 2k - 1 are k JSR and then k RTS, from a stack pointer
\* in 0..255.
NestedCalls(i, k) ==
    /\ i \in Calls
    /\ i + 2 * k - 1 \in Calls
    /\ Before(i).SP \in Bytes
    /\ \A m \in i .. (i + k - 1) : Fetched(m, 32)
    /\ \A m \in (i + k) .. (i + 2 * k - 1) : Fetched(m, 96)

\* C39: after k nested JSR, k <= 127, followed by k RTS, the j-th RTS
\* returns to the address immediately after the (k - j + 1)-th JSR, and
\* after the last RTS SP equals its value before the first JSR.
C39_CallsNest ==
    \A k \in 1 .. 127 :
        LET i == Len(trace) - 2 * k + 1
        IN  NestedCalls(i, k) =>
                /\ \A j \in 1 .. k :
                      After(i + k + j - 1).PC = (Before(i + k - j).PC + 3) % 65536
                /\ After(i + 2 * k - 1).SP = Before(i).SP

\* Two JSR from SP = 0x00, at 0x8000 and 0x8004, and then two RTS: the
\* first returned behind the second JSR, to 0x8007, the second behind the
\* first, to 0x8003, with SP = 0x00 again.
C39_Witness ==
    /\ Len(trace) = 6
    /\ NestedCalls(3, 2)
    /\ Before(3).PC = 32768
    /\ Before(3).SP = 0
    /\ Before(4).PC = 32772
    /\ Before(5).SP = 252
    /\ After(5).PC = 32775
    /\ After(5).SP = 254
    /\ PC = 32771
    /\ SP = 0

(***************************************************************************)
(* Loads, transfers and stores, and what a step() writes, over every       *)
(* opcode the driver of Spec runs.  The effective address of an            *)
(* addressing mode is computed here from the operand bytes and the index   *)
(* registers as the 6502 defines it, within the 16-bit address space.      *)
(***************************************************************************)
\* The zero-page and absolute forms of the loads, stores and
\* read-modify-write instructions.
ZeroPageOpcodes ==
    {\hA5, \hA6, \hA4, \h85, \h86, \h84, \h06, \h46, \h26, \h66, \hE6, \hC6}

AbsoluteOpcodes ==
    {\hAD, \hAE, \hAC, \h8D, \h8E, \h8C, \h0E, \h4E, \h2E, \h6E, \hEE, \hCE}

\* The effective address of the instruction the i-th call executed.
EffectiveAddress(i) ==
    LET c == Before(i)
        opcode == Opcode(i)
        zp == Element(c.memory, c.PC + 1)
        word(p) == Element(c.memory, p % 256) + 256 * Element(c.memory, (p + 1) % 256)
    IN  CASE opcode \in ZeroPageOpcodes -> zp
          [] opcode \in ZeroPageXOpcodes -> (zp + c.X) % 256
          [] opcode \in ZeroPageYOpcodes -> (zp + c.Y) % 256
          [] opcode \in AbsoluteOpcodes -> OperandWord(i)
          [] opcode \in AbsoluteXOpcodes -> (OperandWord(i) + c.X) % 65536
          [] opcode \in AbsoluteYOpcodes -> (OperandWord(i) + c.Y) % 65536
          [] opcode \in IndirectXOpcodes -> word(zp + c.X)
          [] opcode \in IndirectYOpcodes -> (word(zp) + c.Y) % 65536

\* The i-th call was a step() on an instruction all of whose bytes are in
\* memory, with A, X, Y and SP holding bytes.
WholeInstruction(i) ==
    /\ WasStep(i)
    /\ Opcode(i) \in Bytes
    /\ Before(i).PC + OperandWidth(Opcode(i)) \in Addresses
    /\ Before(i).A \in Bytes
    /\ Before(i).X \in Bytes
    /\ Before(i).Y \in Bytes
    /\ Before(i).SP \in Bytes

LoadOpcodes ==
    {\hA9, \hA5, \hB5, \hAD, \hBD, \hB9, \hA1, \hB1, \hA2, \hA6, \hB6, \hAE, \hBE,
     \hA0, \hA4, \hB4, \hAC, \hBC}

\* The register a load or transfer opcode writes.
Destination(opcode) ==
    CASE opcode \in {\hA9, \hA5, \hB5, \hAD, \hBD, \hB9, \hA1, \hB1, \h68} -> "A"
      [] opcode \in {\hA2, \hA6, \hB6, \hAE, \hBE, \hAA} -> "X"
      [] opcode \in {\hA0, \hA4, \hB4, \hAC, \hBC, \hA8} -> "Y"

\* The byte the load or transfer of the i-th call reads: the operand byte,
\* the byte at the effective address, A, or the byte PLA pulls.
SourceByte(i) ==
    LET c == Before(i)
        opcode == Opcode(i)
    IN  CASE opcode \in {\hA9, \hA2, \hA0} -> Element(c.memory, c.PC + 1)
          [] opcode \in {\hAA, \hA8} -> c.A
          [] opcode = \h68 -> StackByte(i, c.SP + 1)
          [] OTHER -> Element(c.memory, EffectiveAddress(i))

\* The i-th call executed a load or a transfer.
FetchedLoad(i) ==
    /\ WholeInstruction(i)
    /\ Opcode(i) \in LoadOpcodes \cup {\hAA, \hA8, \h68}

\* What a load or transfer does to the registers other than SP, to the
\* flags and to memory.
Loaded(i) ==
    LET before == Before(i)
        after == After(i)
        to == Destination(Opcode(i))
        v == SourceByte(i)
    IN  /\ after.A = IF to = "A" THEN v ELSE before.A
        /\ after.X = IF to = "X" THEN v ELSE before.X
        /\ after.Y = IF to = "Y" THEN v ELSE before.Y
        /\ Bit(after.SR, 1) = (IF v = 0 THEN 1 ELSE 0)
        /\ Bit(after.SR, 7) = Bit(v, 7)
        /\ FlagsOutside(after.SR, 130) = FlagsOutside(before.SR, 130)
        /\ after.memory = before.memory

\* C33 as stated: every load and transfer (LDA, LDX, LDY in all their
\* addressing modes, TAX, TAY and PLA) sets the destination register to the
\* source byte, sets Zero iff that byte is 0 and Negative to its bit 7, and
\* leaves Carry, Overflow, Decimal, Interrupt-Disable, the other registers,
\* SP among them, and memory unchanged.
C33_LoadsAndTransfers ==
    \A i \in Calls :
        FetchedLoad(i) => Loaded(i) /\ After(i).SP = Before(i).SP

\* C33, amended: as above, except that PLA leaves SP one higher, modulo
\* 256; every other load and transfer leaves SP unchanged.
C33_LoadsAndTransfersPullMovesSP ==
    \A i \in Calls :
        FetchedLoad(i) =>
            /\ Loaded(i)
            /\ After(i).SP = IF Opcode(i) = \h68 THEN (Before(i).SP + 1) % 256
                                                 ELSE Before(i).SP

\* LDX $FFFF,Y with Y = 1 loaded the byte 0x55 at 0x0000 into X and cleared
\* Zero and Negative, which LDY #1 had left clear and LDX #1 before it.
C33_Witness ==
    \E i \in Calls :
        /\ FetchedLoad(i)
        /\ Opcode(i) = 190
        /\ OperandWord(i) = 65535
        /\ Before(i).Y = 1
        /\ EffectiveAddress(i) = 0
        /\ SourceByte(i) = 85
        /\ After(i).X = 85
        /\ After(i).Y = 1

StoreOpcodes ==
    {\h85, \h95, \h8D, \h9D, \h99, \h81, \h91, \h86, \h96, \h8E, \h84, \h94, \h8C}

\* The value of the register a store opcode writes, in the fields c.
StoredRegister(c, opcode) ==
    CASE opcode \in {\h86, \h96, \h8E} -> c.X
      [] opcode \in {\h84, \h94, \h8C} -> c.Y
      [] OTHER -> c.A

\* The i-th call executed a store.
FetchedStore(i) == WholeInstruction(i) /\ Opcode(i) \in StoreOpcodes

\* C34: every store (STA, STX, STY in all their addressing modes) writes
\* the register's value to exactly one memory byte, the effective address,
\* and leaves the flag byte, A, X, Y, SP and every other memory byte
\* unchanged.
C34_Stores ==
    \A i \in Calls :
        FetchedStore(i) =>
            /\ StoredAt(Before(i).memory, After(i).memory, EffectiveAddress(i),
                        StoredRegister(Before(i), Opcode(i)))
            /\ After(i).SR = Before(i).SR
            /\ After(i).A = Before(i).A
            /\ After(i).X = Before(i).X
            /\ After(i).Y = Before(i).Y
            /\ After(i).SP = Before(i).SP

\* STY $10,X with X = 0 stored Y = 0x80, which PLA and TAY had loaded, over
\* the 0xFF at 0x0010 and left the Negative flag the TAY had set.
C34_Witness ==
    \E i \in Calls :
        /\ FetchedStore(i)
        /\ Opcode(i) = 148
        /\ EffectiveAddress(i) = 16
        /\ Before(i).Y = 128
        /\ Before(i).X = 0
        /\ Element(Before(i).memory, 16) = 255
        /\ Element(After(i).memory, 16) = 128
        /\ Bit(After(i).SR, 7) = 1

\* The memory forms of INC and DEC; those of ASL, LSR, ROL and ROR are
\* ShiftMemoryOpcodes.
IncDecMemoryOpcodes == {\hE6, \hF6, \hEE, \hFE, \hC6, \hD6, \hCE, \hDE}

\* The bytes of the 65,536 the i-th call changed.
BytesChanged(i) == Written(i) \cap Addresses

\* The bytes the instruction of the i-th call, a step(), may change: the
\* effective address of a store or of a read-modify-write on memory, the
\* stack locations PHA, PHP and JSR push to, and none for any other.
MayChange(i) ==
    LET opcode == Opcode(i)
        sp == Before(i).SP
    IN  CASE opcode \in StoreOpcodes \cup ShiftMemoryOpcodes \cup IncDecMemoryOpcodes ->
               IF WholeInstruction(i) THEN {EffectiveAddress(i)} ELSE Addresses
          [] opcode \in {\h48, \h08} -> {256 + sp}
          [] opcode = \h20 -> {256 + sp, 256 + ((sp + 255) % 256)}
          [] OTHER -> {}

\* C38: a step() changes memory only when the instruction is a store, a
\* read-modify-write on a memory operand or a push (PHA, PHP, JSR), and
\* then only at the effective address or at the pushed stack locations;
\* every other instruction, and reset(), leaves all 65,536 bytes unchanged.
C38_MemoryFrame ==
    \A i \in Calls :
        /\ WasStep(i) => BytesChanged(i) \subseteq MayChange(i)
        /\ WasReset(i) => BytesChanged(i) = {}

\* The JSR $8006 of the test program changed the two bytes it pushed to,
\* 0x01FD and 0x01FC, and the LDA #$42 after it changed none.
C38_Witness ==
    \E i \in Calls :
        /\ Fetched(i, 32)
        /\ Before(i).SP = 253
        /\ BytesChanged(i) = {508, 509}
        /\ Fetched(i + 1, 169)
        /\ i + 1 \in Calls
        /\ BytesChanged(i + 1) = {}

====
